---- MODULE Spec2Model ----
(***************************************************************************)
(* McGravity (TypeScript revision): an MCP aggregator.                     *)
(*                                                                         *)
(*   BunSSEServerTransport  src/unnamed/part_006 lines 8-142               *)
(*   McpServerComposer      src/unnamed/part_006 lines 156-318 (current    *)
(*                          revision: descriptors in the registry, one     *)
(*                          upstream client per invocation)                *)
(*   McpServerComposer      src/unnamed/part_006 lines 466-610 (revision   *)
(*                          that keeps live clients and wires              *)
(*                          onclose/onerror to handleTargetServerClose)    *)
(*   McGravityServer        src/src/server.ts                              *)
(*   main                   src/src/index.ts                               *)
(*                                                                         *)
(* The specifications share the variables:                                 *)
(*   Spec          the program: main, loadTargets, the composer of the     *)
(*                 current revision, the HTTP routes, the sessions.        *)
(*   SpecTransport one BunSSEServerTransport driven through its public     *)
(*                 methods by an arbitrary caller.                         *)
(*   SpecWired     startup and reconnect of the composer revision that     *)
(*                 wires onclose/onerror.                                  *)
(*   SpecComposer  the composer of the current revision driven through its *)
(*                 public methods and its installed handlers.              *)
(*   SpecFrontend  the program with upstreams that stay as they are, and   *)
(*                 clients that also POST malformed requests.              *)
(*   SpecStartup   startup alone, with fairness.                           *)
(*   SpecMain      the program from its command line to its GET routes.    *)
(*   SpecSessions  the sessions up to the end of the process, with         *)
(*                 fairness for startup.                                   *)
(*   SpecSchema    jsonSchemaToZod applied to a schema.                    *)
(*   SpecReconnect the wiring revision in front of one upstream, with the  *)
(*                 client's onerror besides its onclose.                   *)
(*   SpecValidation  one capability from its registration to a request    *)
(*                 that the exposed server validates.                      *)
(***************************************************************************)
EXTENDS Integers, Sequences, FiniteSets, TLC

(***************************************************************************)
(* Bounds of the model.                                                    *)
(***************************************************************************)
NumUpstreams == 2
MaxSessions == 2
MaxCalls == 2
MaxCloses == 1
MaxWaited == 2
MaxApiCalls == 5

(***************************************************************************)
(* Data.                                                                   *)
(***************************************************************************)
URLs == 1..NumUpstreams
\* One more upstream, advertising a tool under the name upstream 1 uses.
Twin == NumUpstreams + 1
AllURLs == URLs \cup {Twin}
SIDs == 1..MaxSessions
Args == {"a", "b"}
Kinds == {"tool", "resource", "prompt"}
NoSid == 0

\* The configured upstream list (mcpServers in main).
Configs == {[i \in 1..NumUpstreams |-> i], <<1, Twin>>}

\* What an upstream answers to listTools / listResources / listPrompts.
ListTools(u) == IF u = Twin THEN {<<"tool", 1>>} ELSE {<<"tool", u>>}
ListResources(u) == IF u = 1 THEN {<<"resource", u>>} ELSE {}
ListPrompts(u) == IF u = 2 THEN {<<"prompt", u>>} ELSE {}
AllCaps == UNION {ListTools(u) \cup ListResources(u) \cup ListPrompts(u) : u \in URLs}

\* What an upstream answers to callTool / readResource / getPrompt.
UpstreamResult(u, cap, args) == [from |-> u, cap |-> cap, echo |-> args]

\* new URL(server).hostname: upstream 1 and the twin run on one host, on
\* different ports.
Hostname(u) == IF u = 2 THEN "host2" ELSE "host1"

\* const name = targetServerUrl.toString(): the href, here its host and
\* its port.
UrlToString(u) == <<Hostname(u), 3000 + u>>

\* loadTargets: the clientInfo handed to addTargetServer; main() names a
\* positional upstream after its host.
ClientInfoOf(u) == [name |-> Hostname(u), version |-> "1.0.0"]


(***************************************************************************)
(* BunSSEServerTransport, as operators on a transport record.              *)
(*   writer, responseObj, sseResponse   whether the private field is set   *)
(*   onmessage, onclose                 whether a callback is installed    *)
(*   stream      the events written to the current response stream         *)
(*   streams     how many response streams createResponse has made         *)
(*   endpoints   how many endpoint events were written for this session    *)
(*   received    the payloads handed to onmessage                          *)
(*   closeCalls  how many times close() was called                         *)
(*   closed      how many times onclose was invoked                        *)
(*   errors      how many times onerror was invoked                        *)
(*   broken      the peer has gone away from the current response stream:  *)
(*               the stream is errored and its writer fails                *)
(***************************************************************************)
EndpointEvent(endpoint, sid) ==
    [event |-> "endpoint", data |-> [path |-> endpoint, sessionId |-> sid]]

MessageEvent(message) == [event |-> "message", data |-> message]

\* constructor(_endpoint): this._sessionId = randomUUID()
NewTransport(endpoint, sid) ==
    [sessionId |-> sid, endpoint |-> endpoint,
     writer |-> FALSE, responseObj |-> FALSE, sseResponse |-> FALSE,
     onmessage |-> FALSE, onclose |-> FALSE,
     stream |-> <<>>, streams |-> 0, endpoints |-> 0,
     received |-> <<>>, closeCalls |-> 0, closed |-> 0, errors |-> 0,
     broken |-> FALSE]

\* createResponse() without its `if (this._responseObj) return` guard: every
\* call opens a stream and writes the endpoint event again.
CreateResponseUnguarded(t) ==
    [t EXCEPT !.writer = TRUE,
              !.stream = Append(@, EndpointEvent(t.endpoint, t.sessionId)),
              !.streams = @ + 1,
              !.endpoints = @ + 1,
              !.broken = FALSE,
              !.responseObj = TRUE]

CreateResponse(t) ==
    IF t.responseObj THEN t
    ELSE [t EXCEPT !.writer = TRUE,
                   !.stream = <<EndpointEvent(t.endpoint, t.sessionId)>>,
                   !.streams = @ + 1,
                   !.endpoints = @ + 1,
                   !.broken = FALSE,
                   !.responseObj = TRUE]

Start(t) ==
    LET t1 == IF ~t.responseObj THEN CreateResponse(t) ELSE t
    IN  [t1 EXCEPT !.sseResponse = t1.responseObj]

\* JSONRPCMessageSchema.safeParse(message).success
ValidJsonRpc(body) == body.jsonrpc = "2.0"

\* handleMessage: the transport afterwards, and whether it threw.
HandleMessage(t, message) ==
    IF ValidJsonRpc(message)
    THEN [t |-> IF t.onmessage THEN [t EXCEPT !.received = Append(@, message)] ELSE t,
          threw |-> FALSE]
    ELSE [t |-> [t EXCEPT !.errors = @ + 1], threw |-> TRUE]

\* handlePostMessage handing the parsed message to handleMessage twice.
HandlePostMessageTwice(t, req) ==
    IF ~t.sseResponse
    THEN [t |-> t, status |-> 500, text |-> "SSE connection not established"]
    ELSE IF req.contentType # "application/json"
         THEN [t |-> [t EXCEPT !.errors = @ + 1], status |-> 400,
               text |-> "Error: Unsupported content-type"]
         ELSE IF ~req.parses
         THEN [t |-> [t EXCEPT !.errors = @ + 1], status |-> 400,
               text |-> "SyntaxError"]
         ELSE LET h == HandleMessage(HandleMessage(t, req.body).t, req.body)
              IN  IF h.threw
                  THEN [t |-> [h.t EXCEPT !.errors = @ + 1], status |-> 400,
                        text |-> "Error: Invalid JSON-RPC message"]
                  ELSE [t |-> h.t, status |-> 202, text |-> "Accepted"]

\* handlePostMessage dropping the SSE response when it answers 400.
HandlePostMessageDropping(t, req) ==
    IF ~t.sseResponse
    THEN [t |-> t, status |-> 500, text |-> "SSE connection not established"]
    ELSE IF req.contentType # "application/json"
         THEN [t |-> [t EXCEPT !.errors = @ + 1, !.sseResponse = FALSE],
               status |-> 400, text |-> "Error: Unsupported content-type"]
         ELSE IF ~req.parses
         THEN [t |-> [t EXCEPT !.errors = @ + 1, !.sseResponse = FALSE],
               status |-> 400, text |-> "SyntaxError"]
         ELSE LET h == HandleMessage(t, req.body)
              IN  IF h.threw
                  THEN [t |-> [h.t EXCEPT !.errors = @ + 1], status |-> 400,
                        text |-> "Error: Invalid JSON-RPC message"]
                  ELSE [t |-> h.t, status |-> 202, text |-> "Accepted"]

\* handlePostMessage with a catch that answers 400 without calling onerror.
HandlePostMessageQuiet(t, req) ==
    IF ~t.sseResponse
    THEN [t |-> t, status |-> 500, text |-> "SSE connection not established"]
    ELSE IF req.contentType # "application/json"
         THEN [t |-> t, status |-> 400, text |-> "Error: Unsupported content-type"]
         ELSE IF ~req.parses
         THEN [t |-> t, status |-> 400, text |-> "SyntaxError"]
         ELSE LET h == HandleMessage(t, req.body)
              IN  IF h.threw
                  THEN [t |-> h.t, status |-> 400,
                        text |-> "Error: Invalid JSON-RPC message"]
                  ELSE [t |-> h.t, status |-> 202, text |-> "Accepted"]

\* handlePostMessage: the transport afterwards, and the HTTP status.
\* req.parses says whether req.json() yields a value.
HandlePostMessage(t, req) ==
    IF ~t.sseResponse
    THEN [t |-> t, status |-> 500, text |-> "SSE connection not established"]
    ELSE IF req.contentType # "application/json"
         THEN [t |-> [t EXCEPT !.errors = @ + 1], status |-> 400,
               text |-> "Error: Unsupported content-type"]
         ELSE IF ~req.parses
         THEN [t |-> [t EXCEPT !.errors = @ + 1], status |-> 400,
               text |-> "SyntaxError"]
         ELSE LET h == HandleMessage(t, req.body)
              IN  IF h.threw
                  THEN [t |-> [h.t EXCEPT !.errors = @ + 1], status |-> 400,
                        text |-> "Error: Invalid JSON-RPC message"]
                  ELSE [t |-> h.t, status |-> 202, text |-> "Accepted"]

\* close(): the writer is closed and dropped, both responses are dropped,
\* and onclose is invoked. On an errored stream `await this._writer.close()`
\* rejects and close() ends there.
Close(t) ==
    IF t.writer /\ t.broken
    THEN [t EXCEPT !.closeCalls = @ + 1]
    ELSE [t EXCEPT !.writer = FALSE,
                   !.sseResponse = FALSE,
                   !.responseObj = FALSE,
                   !.closeCalls = @ + 1,
                   !.closed = IF t.onclose THEN @ + 1 ELSE @]

\* send(message): the transport afterwards, whether it threw, and whether
\* the event went onto the stream. this._writer.write(...) is not awaited:
\* on an errored stream its promise rejects and nobody looks at it.
Send(t, message) ==
    IF ~t.writer THEN [t |-> t, threw |-> TRUE, wrote |-> FALSE]
    ELSE IF t.broken THEN [t |-> t, threw |-> FALSE, wrote |-> FALSE]
    ELSE [t |-> [t EXCEPT !.stream = Append(@, MessageEvent(message))],
          threw |-> FALSE, wrote |-> TRUE]


(***************************************************************************)
(* State.                                                                  *)
(*   reachable      environment: whether an upstream accepts connections   *)
(*   config         the upstream list handed to loadTargets                *)
(*   mainPc         main(): "start", "parsed" (after parseCliOptions),     *)
(*                  "configured" (after loadConfig), "init" (after `new    *)
(*                  McGravityServer`), "loading" (awaiting loadTargets),   *)
(*                  "serving" (after server.start()), "exited"             *)
(*                  (process.exit), "killed" (ended by a signal)           *)
(*   idx            loadTargets: index of the target being added           *)
(*   passes         the addTargetServer calls in progress                  *)
(*   targetClients  McpServerComposer.targetClients                        *)
(*   handlers       the handlers installed on the exposed McpServer:       *)
(*                  capability -> the key its closure captured             *)
(*   clients        the upstream client connections that are open          *)
(*   transports     every BunSSEServerTransport constructed so far         *)
(*   sessions       McGravityServer.transports: sessionId -> transport     *)
(*   serverTransport  the transport the shared McpServer is connected to   *)
(*   calls          the downstream requests dispatched to handlers         *)
(*   lastPost       the last POST and its response                         *)
(*   lastSend       SpecTransport: how the last send() ended, how many     *)
(*                  close() calls and response streams preceded it, and    *)
(*                  whether it wrote to the stream                         *)
(*   api            SpecTransport: number of method calls made             *)
(*   nextClient     SpecWired: number of upstream clients created          *)
(*   cli            the command line and the config file main() was started *)
(*                  with, and what main() has made of them                 *)
(*   schemaIn       the JSON schema handed to jsonSchemaToZod              *)
(*   zodOut         what jsonSchemaToZod returned for it                   *)
(*   lastGet        the last GET and its response                          *)
(*   invocation     the request the exposed server validated against the   *)
(*                  registered shape, and what became of it                *)
(*   log            history: how the addTargetServer call that ended last  *)
(*                  ended (last), the keys deleted from targetClients      *)
(*                  so far (removed) and the number of disconnectAll       *)
(*                  calls that have returned (cleared)                     *)
(***************************************************************************)
VARIABLES reachable, config, mainPc, idx, log, passes, targetClients, handlers,
          clients, transports, sessions, serverTransport, calls, lastPost,
          lastSend, api, nextClient, cli, schemaIn, zodOut, lastGet, invocation

vars == <<reachable, config, mainPc, idx, log, passes, targetClients, handlers,
          clients, transports, sessions, serverTransport, calls, lastPost,
          lastSend, api, nextClient, cli, schemaIn, zodOut, lastGet, invocation>>

boundaryVars == <<cli, schemaIn, zodOut, lastGet, invocation>>

composerVars == <<targetClients, handlers>>
startupVars == <<config, mainPc, idx, log, passes>>
frontendVars == <<transports, sessions, serverTransport, lastPost, lastSend>>

EmptyMap == [x \in {} |-> 0]

\* Map.set(k, v)
MapSet(m, k, v) == [x \in DOMAIN m \cup {k} |-> IF x = k THEN v ELSE m[x]]

\* Map.delete(k) / delete obj[k]
MapDelete(m, k) == [x \in DOMAIN m \ {k} |-> m[x]]

\* seq without its i-th element
RemoveAt(seq, i) == [j \in 1..(Len(seq) - 1) |-> IF j < i THEN seq[j] ELSE seq[j + 1]]

(***************************************************************************)
(* jsonSchemaToZod (utils/schema-converter).                               *)
(*                                                                         *)
(* A value under `properties` of a JSON schema is a record:                *)
(*   object  whether the value is an object (typeof value === 'object'     *)
(*           && value !== null)                                            *)
(*   type    its `type`; "null" stands for a type the converter does not   *)
(*           know, "absent" for a value without `type`                     *)
(*   items   the `type` of its `items`; "object" stands for an item type   *)
(*           the converter does not know, "untyped" for `items` without    *)
(*           `type`, "absent" for a value without `items`                  *)
(*   has     whether it has `properties`                                   *)
(*   props   its `properties`: key -> value                                *)
(* and a schema handed to the converter is [has, props].                   *)
(***************************************************************************)
MaxDepth == 1

Keys == {"k1", "k2"}
NestedKeys == {"k1"}
ScalarTypes == {"string", "number", "integer", "boolean"}
Types == ScalarTypes \cup {"array", "object", "null", "absent"}
ItemTypes == ScalarTypes \cup {"object", "untyped", "absent"}

PropSchema(type, items, has, props) ==
    [object |-> TRUE, type |-> type, items |-> items, has |-> has, props |-> props]

\* A value that is not an object, such as `true`.
NotAnObject ==
    [object |-> FALSE, type |-> "absent", items |-> "absent", has |-> FALSE,
     props |-> EmptyMap]

\* The maps from some of the keys K to values in V.
Maps(K, V) == UNION {[ks -> V] : ks \in SUBSET K}

Leaves ==
    {PropSchema(t, "absent", FALSE, EmptyMap) : t \in Types \ {"array"}}
        \cup {PropSchema("array", i, FALSE, EmptyMap) : i \in ItemTypes}
        \cup {NotAnObject}

RECURSIVE PropSchemas(_)
PropSchemas(depth) ==
    IF depth = 0 THEN Leaves
    ELSE Leaves \cup {PropSchema("object", "absent", TRUE, m) :
                         m \in Maps(NestedKeys, PropSchemas(depth - 1))}

\* jsonSchema is undefined or has no `properties`.
NoSchema == [has |-> FALSE, props |-> EmptyMap]

Schemas ==
    {[has |-> TRUE, props |-> m] : m \in Maps(Keys, PropSchemas(MaxDepth))}
        \cup {NoSchema}

\* The validators: z.string(), z.number(), z.boolean(), z.array(...),
\* z.object(shape), z.record(z.string(), z.any()), z.any().
Zod(kind, of, shape) == [zod |-> kind, of |-> of, shape |-> shape]
ZString == Zod("string", "none", EmptyMap)
ZNumber == Zod("number", "none", EmptyMap)
ZBoolean == Zod("boolean", "none", EmptyMap)
ZArray(of) == Zod("array", of, EmptyMap)
ZObject(shape) == Zod("object", "none", shape)
ZRecord == Zod("record", "any", EmptyMap)
ZAny == Zod("any", "none", EmptyMap)

\* A converter that does not descend into nested `properties`.
jsonSchemaToZodFlat(jsonSchema) ==
    LET properties == IF jsonSchema.has THEN jsonSchema.props ELSE EmptyMap
        zodOf(value) ==
            IF value.object /\ value.type # "absent"
            THEN IF value.type = "string" THEN ZString
                 ELSE IF value.type = "number" \/ value.type = "integer" THEN ZNumber
                 ELSE IF value.type = "boolean" THEN ZBoolean
                 ELSE IF value.type = "array"
                 THEN IF value.items \notin {"absent", "untyped"}
                      THEN IF value.items = "string" THEN ZArray("string")
                           ELSE IF value.items = "number" \/ value.items = "integer"
                           THEN ZArray("number")
                           ELSE IF value.items = "boolean" THEN ZArray("boolean")
                           ELSE ZArray("any")
                      ELSE ZArray("any")
                 ELSE IF value.type = "object" THEN ZRecord
                 ELSE ZAny
            ELSE ZAny
    IN  [key \in DOMAIN properties |-> zodOf(properties[key])]

\* A converter that turns the list of a prompt's arguments into one string
\* validator per argument.
jsonSchemaToZodReadingList(jsonSchema) ==
    IF "js" \in DOMAIN jsonSchema /\ jsonSchema.js = "array"
    THEN [key \in {a.name : a \in jsonSchema.arguments} |-> ZString]
    ELSE jsonSchemaToZodFlat(jsonSchema)

RECURSIVE jsonSchemaToZod(_)
jsonSchemaToZod(jsonSchema) ==
    LET properties == IF jsonSchema.has THEN jsonSchema.props ELSE EmptyMap
        zodOf(value) ==
            IF value.object /\ value.type # "absent"
            THEN IF value.type = "string" THEN ZString
                 ELSE IF value.type = "number" \/ value.type = "integer" THEN ZNumber
                 ELSE IF value.type = "boolean" THEN ZBoolean
                 ELSE IF value.type = "array"
                 THEN IF value.items \notin {"absent", "untyped"}
                      THEN IF value.items = "string" THEN ZArray("string")
                           ELSE IF value.items = "number" \/ value.items = "integer"
                           THEN ZArray("number")
                           ELSE IF value.items = "boolean" THEN ZArray("boolean")
                           ELSE ZArray("any")
                      ELSE ZArray("any")
                 ELSE IF value.type = "object"
                 THEN IF value.has
                      THEN ZObject(jsonSchemaToZod([has |-> TRUE, props |-> value.props]))
                      ELSE ZRecord
                 ELSE ZAny
            ELSE ZAny
    IN  [key \in DOMAIN properties |-> zodOf(properties[key])]

NoZod == [done |-> FALSE, shape |-> EmptyMap]

(***************************************************************************)
(* What composeTools and composePrompts hand to jsonSchemaToZod, and what  *)
(* the exposed McpServer does with the shape it gets back.                 *)
(*   of         "tool": tool.inputSchema; "prompt": prompt.arguments       *)
(*   js         the kind of the value: an object, an array (the list of a  *)
(*              prompt's arguments) or undefined                           *)
(*   has, props its `properties`; an array and undefined have none         *)
(*   required   the `required` list of a tool's input schema              *)
(*   arguments  the elements {name, required} of a prompt's list           *)
(***************************************************************************)
ToolLeaves ==
    {PropSchema(t, "absent", FALSE, EmptyMap) : t \in {"string", "integer"}}
        \cup {PropSchema("array", "string", FALSE, EmptyMap),
              PropSchema("object", "absent", TRUE,
                         [k \in NestedKeys |-> PropSchema("string", "absent", FALSE,
                                                         EmptyMap)])}

ToolInput(props, required) ==
    [of |-> "tool", js |-> "object", has |-> TRUE, props |-> props,
     required |-> required, arguments |-> {}]

\* `required` names properties of the schema.
ToolInputs ==
    UNION {{ToolInput(m, r) : r \in SUBSET DOMAIN m} : m \in Maps(Keys, ToolLeaves)}

PromptInput(js, arguments) ==
    [of |-> "prompt", js |-> js, has |-> FALSE, props |-> EmptyMap,
     required |-> {}, arguments |-> arguments]

PromptArguments ==
    {a \in SUBSET [name : Keys, required : BOOLEAN] :
        \A x, y \in a : x.name = y.name => x = y}

PromptInputs ==
    {PromptInput("array", a) : a \in PromptArguments}
        \cup {PromptInput("undefined", {})}

\* The values a request carries under a key: a string, a number, a boolean,
\* [] and {}.
Values == {"string", "number", "boolean", "array", "object"}
\* A request without `arguments`: told apart from every map of Keys by its
\* one key.
Undefined == [k \in {"undefined"} |-> "undefined"]
ToolArgs == Maps(Keys, Values) \cup {Undefined}
PromptArgs == Maps(Keys, {"string"}) \cup {Undefined}

\* zod: whether the validator parses the value; "absent" is undefined.
RECURSIVE ZodAccepts(_, _)
ZodAccepts(z, v) ==
    CASE z.zod = "any" -> TRUE
      [] z.zod = "string" -> v = "string"
      [] z.zod = "number" -> v = "number"
      [] z.zod = "boolean" -> v = "boolean"
      [] z.zod = "array" -> v = "array"
      [] z.zod = "record" -> v = "object"
      [] z.zod = "object" ->
            /\ v = "object"
            /\ \A k \in DOMAIN z.shape : ZodAccepts(z.shape[k], "absent")

\* z.object(shape).safeParseAsync(args): undefined is not an object; of an
\* object every key of the shape is parsed and the keys the shape does not
\* name are stripped.
ZodObjectParse(shape, args) ==
    IF args = Undefined
    THEN [ok |-> FALSE, data |-> EmptyMap]
    ELSE [ok |-> \A k \in DOMAIN shape :
                    ZodAccepts(shape[k],
                               IF k \in DOMAIN args THEN args[k] ELSE "absent"),
          data |-> [k \in DOMAIN args \cap DOMAIN shape |-> args[k]]]

\* The upstream's own check of the arguments of a tool call against the
\* input schema it advertises.
TypeMatches(p, v) ==
    CASE p.type = "string" -> v = "string"
      [] p.type \in {"number", "integer"} -> v = "number"
      [] p.type = "boolean" -> v = "boolean"
      [] p.type = "array" -> v = "array"
      [] p.type = "object" -> v = "object"
      [] OTHER -> TRUE

UpstreamAccepts(schema, args) ==
    /\ args # Undefined
    /\ schema.required \subseteq DOMAIN args
    /\ \A k \in DOMAIN args \cap DOMAIN schema.props :
          TypeMatches(schema.props[k], args[k])

NoInvocation ==
    [op |-> "none", args |-> EmptyMap, outcome |-> "none", forwarded |-> EmptyMap]

\* The request handler of the exposed McpServer: parse the arguments with
\* z.object(shape); InvalidParams if that fails, the callback with the
\* parsed data if it succeeds.
Validated(op, shape, args) ==
    LET parsed == ZodObjectParse(shape, args)
    IN  [op |-> op, args |-> args,
         outcome |-> IF parsed.ok THEN "forwarded" ELSE "InvalidParams",
         forwarded |-> IF parsed.ok THEN parsed.data ELSE EmptyMap]

(***************************************************************************)
(* The command line and the config file (src/src/index.ts).                *)
(*   positionals  the positional arguments: upstream URLs                  *)
(*   help         --help                                                   *)
(*   file         the file at the config path (--config, or config.yaml):  *)
(*                "missing", "valid", "badYaml" (js-yaml's load throws),   *)
(*                "schemaMismatch" (configSchema.parseAsync rejects)       *)
(*   servers      Object.values(servers) of a valid config file            *)
(*   configFile   options.config is set                                    *)
(*   loaded       mcGravityConfig is set                                   *)
(*   helpShown    showHelp() was called                                    *)
(*   exitCode     the code handed to process.exit, Running before that     *)
(***************************************************************************)
Running == -1

Positionals == {<<>>, <<2>>, <<1, Twin>>}
ConfigFiles == {"missing", "valid", "badYaml", "schemaMismatch"}
ConfigServers == {<<>>, <<1, 2>>}

Cli(positionals, help, file, servers) ==
    [positionals |-> positionals, help |-> help, file |-> file, servers |-> servers,
     configFile |-> FALSE, loaded |-> FALSE, helpShown |-> FALSE, exitCode |-> Running]

CliInputs ==
    {Cli(p, h, f, v) : p \in Positionals, h \in BOOLEAN, f \in ConfigFiles \ {"valid"},
                       v \in {<<>>}}
        \cup {Cli(p, h, "valid", v) : p \in Positionals, h \in BOOLEAN,
                                      v \in ConfigServers}

\* A process whose upstream list is given directly.
NoCli == Cli(<<>>, FALSE, "missing", <<>>)

NoGet == [path |-> "none", status |-> 0, contentType |-> "none", text |-> "none",
          json |-> {}, sid |-> NoSid]

NoPost == [x |-> NoSid, live |-> FALSE, wellFormed |-> FALSE,
           contentType |-> "none", parses |-> FALSE,
           body |-> [jsonrpc |-> "none", id |-> 0, method |-> "none",
                     name |-> <<"none", 0>>, args |-> "none"],
           status |-> 0, text |-> "none", fired |-> {}]

NoSend == [outcome |-> "none", closeCalls |-> 0, streams |-> 0, wrote |-> FALSE]

NoneEnded ==
    [url |-> 0, skip |-> FALSE, origin |-> "none", at |-> "none", result |-> "none",
     had |-> FALSE, has |-> FALSE, installed |-> {}, open |-> FALSE]

InitCore ==
    /\ reachable \in [AllURLs -> BOOLEAN]
    /\ reachable[Twin]
    /\ log = [last |-> NoneEnded, removed |-> {}, cleared |-> 0]
    /\ targetClients = EmptyMap
    /\ handlers = EmptyMap
    /\ clients = {}
    /\ transports = EmptyMap
    /\ sessions = EmptyMap
    /\ serverTransport = NoSid
    /\ calls = <<>>
    /\ lastPost = NoPost
    /\ lastSend = NoSend
    /\ api = 0
    /\ nextClient = 0
    /\ idx = 1
    /\ passes = <<>>
    /\ lastGet = NoGet
    /\ invocation = NoInvocation

InitCommon ==
    /\ InitCore
    /\ cli = NoCli
    /\ schemaIn = NoSchema
    /\ zodOut = NoZod

\* After `new McGravityServer(...)` in main().
Init ==
    /\ InitCommon
    /\ config \in Configs
    /\ mainPc = "init"

Alive == mainPc \notin {"exited", "killed"}

(***************************************************************************)
(* The environment: an upstream goes down or comes up.                     *)
(***************************************************************************)
UpstreamDown(u) ==
    /\ Alive
    /\ reachable[u]
    /\ reachable' = [reachable EXCEPT ![u] = FALSE]
    /\ UNCHANGED boundaryVars
    /\ UNCHANGED <<startupVars, composerVars, clients, frontendVars, calls, api,
                   nextClient>>

UpstreamUp(u) ==
    /\ Alive
    /\ ~reachable[u]
    /\ reachable' = [reachable EXCEPT ![u] = TRUE]
    /\ UNCHANGED boundaryVars
    /\ UNCHANGED <<startupVars, composerVars, clients, frontendVars, calls, api,
                   nextClient>>


(***************************************************************************)
(* McpServerComposer, current revision (part_006 lines 156-318).           *)
(***************************************************************************)
\* One call of addTargetServer(targetServerUrl, clientInfo, skipRegister).
\* waited counts the retry timers this call has sat through (saturating);
\* client names the connected client of the call (the wiring revision).
\* History: had says whether the key was in targetClients when the call
\* began, installed collects the capabilities this call has installed.
NewPassIn(registry, u, skip, origin) ==
    [url |-> u, skip |-> skip, origin |-> origin, pc |-> "connect", waited |-> 0,
     client |-> 0, had |-> UrlToString(u) \in DOMAIN registry, installed |-> {}]

NewPass(u, skip, origin) == NewPassIn(targetClients, u, skip, origin)

\* A registry value that carries the connected client along.
DescriptorWithClient(u) == [clientInfo |-> ClientInfoOf(u), url |-> u, client |-> 1]

\* this.targetClients.set(name, { clientInfo, url: targetServerUrl })
Descriptor(u) == [clientInfo |-> ClientInfoOf(u), url |-> u]

\* this.server.tool(name, ...), this.server.resource(name, uri, ...),
\* this.server.prompt(name, ...) of the SDK's McpServer throw
\* "... is already registered" for a name (a uri, for a resource) that has
\* a handler.
AlreadyRegistered(h, caps) == caps \cap DOMAIN h

\* composeTools / composeResources / composePrompts: one handler per listed
\* capability, each closing over `name`.
Compose(h, caps, name) ==
    [c \in DOMAIN h \cup caps |-> IF c \in caps THEN name ELSE h[c]]

composeTools(h, tools, name) == Compose(h, tools, name)
\* A composeResources that installs nothing.
composeResourcesNothing(h, resources, name) == h

composeResources(h, resources, name) == Compose(h, resources, name)
composePrompts(h, prompts, name) == Compose(h, prompts, name)

\* The upstream client a registration pass holds.
PassClient(p) == [by |-> "pass", n |-> 0, url |-> p.url]

\* History: how call i of addTargetServer ended. Evaluated after the step
\* has fixed clients', targetClients' and handlers'.
Ended(i, result, installed) ==
    [url |-> passes[i].url, skip |-> passes[i].skip, origin |-> passes[i].origin,
     at |-> passes[i].pc, result |-> result,
     had |-> passes[i].had,
     has |-> UrlToString(passes[i].url) \in DOMAIN targetClients',
     installed |-> installed,
     open |-> \E c \in clients' : c.url = passes[i].url /\ c.by \in {"pass", "wired"}]

LogEnded(i, result, installed) ==
    log' = [log EXCEPT !.last = Ended(i, result, installed)]

\* addTargetServer resolved. For a pass of loadTargets the loop goes on to
\* the next target, or loadTargets resolves and main calls server.start().
PassResolves(i, installed) ==
    LET rest == RemoveAt(passes, i)
    IN  /\ LogEnded(i, "resolved", installed)
        /\ IF passes[i].origin = "load"
           THEN /\ idx' = idx + 1
                /\ IF idx + 1 <= Len(config)
                   THEN /\ passes' = Append(rest, NewPassIn(targetClients',
                                                  config[idx + 1], FALSE, "load"))
                        /\ mainPc' = mainPc
                   ELSE /\ passes' = rest
                        /\ mainPc' = "serving"
           ELSE /\ passes' = rest
                /\ UNCHANGED <<idx, mainPc>>

\* addTargetServer rejected. loadTargets rejects, main().catch logs and
\* calls process.exit(1).
PassRejects(i) ==
    /\ LogEnded(i, "rejected", passes[i].installed)
    /\ passes' = RemoveAt(passes, i)
    /\ idx' = idx
    /\ mainPc' = IF passes[i].origin = "load" THEN "exited" ELSE mainPc

(***************************************************************************)
(* main() up to `new McGravityServer(...)` (src/src/index.ts).             *)
(***************************************************************************)
\* parseCliOptions(): options.config is the config path if a file is there.
ParseCliOptions ==
    /\ mainPc = "start"
    /\ mainPc' = "parsed"
    /\ cli' = [cli EXCEPT !.configFile = (cli.file # "missing")]
    /\ UNCHANGED <<schemaIn, zodOut, lastGet, invocation>>
    /\ UNCHANGED <<reachable, config, idx, log, passes, composerVars, clients,
                   frontendVars, calls, api, nextClient>>

\* A loadConfig step that takes a file it cannot use for no config at all.
LoadConfigLenient ==
    /\ mainPc = "parsed"
    /\ mainPc' = "configured"
    /\ cli' = [cli EXCEPT !.loaded = (cli.configFile /\ cli.file = "valid")]
    /\ UNCHANGED <<schemaIn, zodOut, lastGet, invocation>>
    /\ UNCHANGED <<reachable, config, idx, log, passes, composerVars, clients,
                   frontendVars, calls, api, nextClient>>

\* if (options.config) mcGravityConfig = await loadConfig(options.config);
\* loadConfig throws on a file that is not YAML or does not match
\* configSchema: main().catch logs and calls process.exit(1).
LoadConfig ==
    /\ mainPc = "parsed"
    /\ IF cli.configFile /\ cli.file # "valid"
       THEN /\ mainPc' = "exited"
            /\ cli' = [cli EXCEPT !.exitCode = 1]
       ELSE /\ mainPc' = "configured"
            /\ cli' = [cli EXCEPT !.loaded = cli.configFile]
    /\ UNCHANGED <<schemaIn, zodOut, lastGet, invocation>>
    /\ UNCHANGED <<reachable, config, idx, log, passes, composerVars, clients,
                   frontendVars, calls, api, nextClient>>

\* A selection that takes the config's servers whenever a config was loaded.
SelectServersConfigFirst ==
    /\ mainPc = "configured"
    /\ IF cli.loaded
       THEN /\ config' = cli.servers
            /\ mainPc' = "init"
            /\ cli' = cli
       ELSE IF cli.help \/ Len(cli.positionals) = 0
       THEN /\ config' = config
            /\ mainPc' = "exited"
            /\ cli' = [cli EXCEPT !.helpShown = TRUE,
                                  !.exitCode = IF cli.help THEN 0 ELSE 1]
       ELSE /\ config' = cli.positionals
            /\ mainPc' = "init"
            /\ cli' = cli
    /\ UNCHANGED <<schemaIn, zodOut, lastGet, invocation>>
    /\ UNCHANGED <<reachable, idx, log, passes, composerVars, clients,
                   frontendVars, calls, api, nextClient>>

\* The choice of mcpServers, up to `new McGravityServer(...)`:
\*   if (options.help || options.mcpServers.length === 0) {
\*     if (!mcGravityConfig) { showHelp(); process.exit(options.help ? 0 : 1); }
\*     mcpServers = Object.values(mcGravityConfig.servers);
\*   } else { mcpServers = options.mcpServers.map(...) }
SelectServers ==
    /\ mainPc = "configured"
    /\ IF cli.help \/ Len(cli.positionals) = 0
       THEN IF ~cli.loaded
            THEN /\ config' = config
                 /\ mainPc' = "exited"
                 /\ cli' = [cli EXCEPT !.helpShown = TRUE,
                                       !.exitCode = IF cli.help THEN 0 ELSE 1]
            ELSE /\ config' = cli.servers
                 /\ mainPc' = "init"
                 /\ cli' = cli
       ELSE /\ config' = cli.positionals
            /\ mainPc' = "init"
            /\ cli' = cli
    /\ UNCHANGED <<schemaIn, zodOut, lastGet, invocation>>
    /\ UNCHANGED <<reachable, idx, log, passes, composerVars, clients,
                   frontendVars, calls, api, nextClient>>

\* The process is ended by a signal: main() installs no handler for any, so
\* nothing of the program runs any more.
Signal ==
    /\ Alive
    /\ mainPc' = "killed"
    /\ UNCHANGED boundaryVars
    /\ UNCHANGED <<reachable, config, idx, log, passes, composerVars, clients,
                   frontendVars, calls, api, nextClient>>

\* main(): await server.loadTargets(mcpServers), up to the first connect;
\* with no target the loop ends at once and main calls server.start().
LoadTargets ==
    /\ mainPc = "init"
    /\ IF Len(config) = 0
       THEN /\ mainPc' = "serving"
            /\ passes' = passes
       ELSE /\ mainPc' = "loading"
            /\ passes' = <<NewPass(config[1], FALSE, "load")>>
    /\ UNCHANGED boundaryVars
    /\ UNCHANGED <<reachable, config, idx, log, composerVars, clients, frontendVars,
                   calls, api, nextClient>>

\* A connect that goes on to the listings whatever skipRegister says.
ConnectOkAlwaysRegisters(i) ==
    /\ Alive
    /\ passes[i].pc = "connect"
    /\ reachable[passes[i].url]
    /\ targetClients' = MapSet(targetClients, UrlToString(passes[i].url),
                               Descriptor(passes[i].url))
    /\ clients' = clients \cup {PassClient(passes[i])}
    /\ passes' = [passes EXCEPT ![i].pc = "listTools"]
    /\ UNCHANGED boundaryVars
    /\ UNCHANGED <<reachable, config, handlers, frontendVars, calls, api, nextClient,
                   idx, mainPc, log>>

\* await targetClient.connect(targetTransport) succeeded.
ConnectOk(i) ==
    /\ Alive
    /\ passes[i].pc = "connect"
    /\ reachable[passes[i].url]
    /\ targetClients' = MapSet(targetClients, UrlToString(passes[i].url),
                               Descriptor(passes[i].url))
    /\ clients' = clients \cup {PassClient(passes[i])}
    /\ UNCHANGED boundaryVars
    /\ UNCHANGED <<reachable, config, handlers, frontendVars, calls, api, nextClient>>
    /\ IF passes[i].skip
       THEN PassResolves(i, {})
       ELSE /\ passes' = [passes EXCEPT ![i].pc = "listTools"]
            /\ UNCHANGED <<idx, mainPc, log>>

\* await targetClient.connect(targetTransport) threw: setTimeout(..., 10000).
ConnectFail(i) ==
    /\ Alive
    /\ passes[i].pc = "connect"
    /\ ~reachable[passes[i].url]
    /\ passes' = [passes EXCEPT ![i].pc = "timer"]
    /\ UNCHANGED boundaryVars
    /\ UNCHANGED <<reachable, config, mainPc, idx, log, composerVars, clients,
                   frontendVars, calls, api, nextClient>>

\* A retry that stops after the first attempt: the timer is not set again.
RetryTimerOnce(i) ==
    /\ Alive
    /\ passes[i].pc = "timer"
    /\ passes[i].waited < 1
    /\ passes' = [passes EXCEPT ![i].pc = "connect", ![i].waited = @ + 1]
    /\ UNCHANGED boundaryVars
    /\ UNCHANGED <<reachable, config, mainPc, idx, log, composerVars, clients,
                   frontendVars, calls, api, nextClient>>

\* The timer fires: this.addTargetServer(targetServerUrl, clientInfo, skipRegister).
RetryTimer(i) ==
    /\ Alive
    /\ passes[i].pc = "timer"
    /\ passes' = [passes EXCEPT ![i].pc = "connect",
                                ![i].waited = IF @ < MaxWaited THEN @ + 1 ELSE @]
    /\ UNCHANGED boundaryVars
    /\ UNCHANGED <<reachable, config, mainPc, idx, log, composerVars, clients,
                   frontendVars, calls, api, nextClient>>

\* const tools = await targetClient.listTools(); this.composeTools(...)
ListToolsOk(i) ==
    /\ Alive
    /\ passes[i].pc = "listTools"
    /\ reachable[passes[i].url]
    /\ AlreadyRegistered(handlers, ListTools(passes[i].url)) = {}
    /\ handlers' = composeTools(handlers, ListTools(passes[i].url),
                                UrlToString(passes[i].url))
    /\ passes' = [passes EXCEPT ![i].pc = "listResources",
                                ![i].installed = @ \cup ListTools(passes[i].url)]
    /\ UNCHANGED boundaryVars
    /\ UNCHANGED <<reachable, config, mainPc, idx, log, targetClients, clients,
                   frontendVars, calls, api, nextClient>>

ListResourcesOk(i) ==
    /\ Alive
    /\ passes[i].pc = "listResources"
    /\ reachable[passes[i].url]
    /\ AlreadyRegistered(handlers, ListResources(passes[i].url)) = {}
    /\ handlers' = composeResources(handlers, ListResources(passes[i].url),
                                    UrlToString(passes[i].url))
    /\ passes' = [passes EXCEPT ![i].pc = "listPrompts",
                                ![i].installed = @ \cup ListResources(passes[i].url)]
    /\ UNCHANGED boundaryVars
    /\ UNCHANGED <<reachable, config, mainPc, idx, log, targetClients, clients,
                   frontendVars, calls, api, nextClient>>

\* ... this.composePrompts(...); targetClient.close()
ListPromptsOk(i) ==
    /\ Alive
    /\ passes[i].pc = "listPrompts"
    /\ reachable[passes[i].url]
    /\ AlreadyRegistered(handlers, ListPrompts(passes[i].url)) = {}
    /\ handlers' = composePrompts(handlers, ListPrompts(passes[i].url),
                                  UrlToString(passes[i].url))
    /\ clients' = clients \ {PassClient(passes[i])}
    /\ UNCHANGED boundaryVars
    /\ UNCHANGED <<reachable, config, targetClients, frontendVars, calls, api,
                   nextClient>>
    /\ PassResolves(i, passes[i].installed \cup ListPrompts(passes[i].url))

\* One of the three listings threw: addTargetServer rejects where it stands.
ListFail(i) ==
    /\ Alive
    /\ passes[i].pc \in {"listTools", "listResources", "listPrompts"}
    /\ ~reachable[passes[i].url]
    /\ UNCHANGED boundaryVars
    /\ UNCHANGED <<reachable, config, composerVars, clients, frontendVars, calls,
                   api, nextClient>>
    /\ PassRejects(i)

\* What the listing at pass position pc returned.
Listed(u, pc) ==
    CASE pc = "listTools" -> ListTools(u)
      [] pc = "listResources" -> ListResources(u)
      [] pc = "listPrompts" -> ListPrompts(u)
      [] OTHER -> {}

\* The listing returned a capability whose name already has a handler: the
\* McpServer registration throws inside composeTools / composeResources /
\* composePrompts and addTargetServer rejects.
RegisterThrows(i) ==
    /\ Alive
    /\ passes[i].pc \in {"listTools", "listResources", "listPrompts"}
    /\ reachable[passes[i].url]
    /\ AlreadyRegistered(handlers, Listed(passes[i].url, passes[i].pc)) # {}
    /\ UNCHANGED boundaryVars
    /\ UNCHANGED <<reachable, config, composerVars, clients, frontendVars, calls,
                   api, nextClient>>
    /\ PassRejects(i)


(***************************************************************************)
(* McGravityServer.start(): the routes (src/src/server.ts).                *)
(***************************************************************************)
MaxErrors == 1

\* GET /health
Health == IF mainPc = "serving" THEN [status |-> 200, body |-> "OK"]
          ELSE [status |-> 0, body |-> "no listener"]

\* listTargetClients(): Array.from(this.targetClients.values())
listTargetClients == {targetClients[k] : k \in DOMAIN targetClients}

\* What the exposed server answers to tools/list, resources/list and
\* prompts/list: the names that have a handler.
ServerLists(kind) == {c \in DOMAIN handlers : c[1] = kind}

\* A serialisation that loses the URL object (it becomes {}).
DescriptorJsonNoUrl(d) == [clientInfo |-> d.clientInfo, url |-> <<"none", 0>>]

\* JSON.stringify of a registry value: the clientInfo as it is, the URL
\* object by its toJSON(), which is its string form.
DescriptorJson(d) == [clientInfo |-> d.clientInfo, url |-> UrlToString(d.url)]

\* GET /api/list-targets
ListTargets == IF mainPc = "serving" THEN [status |-> 200, body |-> listTargetClients]
               ELSE [status |-> 0, body |-> {}]

\* McpServer.connect(transport): the shared server takes the transport as
\* its own, installs its callbacks and starts it.
ServerConnect(t) == Start([t EXCEPT !.onmessage = TRUE, !.onclose = TRUE])

\* Route '/': a new transport with a fresh session id, bound to the shared
\* server, entered in this.transports; its response is returned.
GetRoot ==
    /\ mainPc = "serving"
    /\ Cardinality(DOMAIN transports) < MaxSessions
    /\ LET sid == Cardinality(DOMAIN transports) + 1
           t1 == ServerConnect(NewTransport("/sessions", sid))
           t2 == [t1 EXCEPT !.onclose = TRUE]
           t3 == CreateResponse(t2)
       IN  /\ transports' = MapSet(transports, sid, t3)
           /\ sessions' = MapSet(sessions, t3.sessionId, sid)
           /\ serverTransport' = sid
           /\ lastGet' = [path |-> "/", status |-> 200,
                          contentType |-> "text/event-stream", text |-> "none",
                          json |-> {}, sid |-> t3.sessionId]
    /\ UNCHANGED <<cli, schemaIn, zodOut, invocation>>
    /\ UNCHANGED <<reachable, startupVars, composerVars, clients, calls, lastPost,
                   lastSend, api, nextClient>>

\* The paths a client asks for besides '/' and '/sessions'.
OtherPaths == {"/sse", "/health", "/api/list-targets"}

\* What Bun.serve answers to a GET of such a path: the route's response,
\* or that of fetch() for a path without a route.
RouteGet(path) ==
    IF path = "/health"
    THEN [path |-> path, status |-> Health.status, contentType |-> "text/plain",
          text |-> Health.body, json |-> {}, sid |-> NoSid]
    ELSE IF path = "/api/list-targets"
    THEN [path |-> path, status |-> ListTargets.status,
          contentType |-> "application/json", text |-> "none",
          json |-> {DescriptorJson(d) : d \in ListTargets.body}, sid |-> NoSid]
    ELSE [path |-> path, status |-> 404, contentType |-> "text/plain",
          text |-> "Not found", json |-> {}, sid |-> NoSid]

Get(path) ==
    /\ mainPc = "serving"
    /\ lastGet' = RouteGet(path)
    /\ UNCHANGED <<cli, schemaIn, zodOut, invocation>>
    /\ UNCHANGED <<reachable, startupVars, composerVars, clients, frontendVars,
                   calls, api, nextClient>>

\* The requests a downstream client may POST.
CallBody(i, cap, a) ==
    [jsonrpc |-> "2.0", id |-> i, method |-> cap[1], name |-> cap, args |-> a]

\* A downstream client numbers the requests of its session 1, 2, ...
NextId(x) == Cardinality({k \in DOMAIN calls : calls[k].sid = x}) + 1

\* The arguments a caller passes: either value to a tool, the one uri to a
\* resource, one value to a prompt.
ArgsOf(cap) == IF cap[1] = "tool" THEN Args ELSE {"a"}

GoodRequests(x) ==
    {[contentType |-> "application/json", parses |-> TRUE,
      body |-> CallBody(NextId(x), c[1], c[2])] :
        c \in {<<cap, a>> \in (DOMAIN handlers) \X Args : a \in ArgsOf(cap)}}

BadRequests ==
    LET b == CallBody(1, <<"tool", 1>>, "a")
    IN  {[contentType |-> "text/plain", parses |-> TRUE, body |-> b],
         [contentType |-> "application/json", parses |-> FALSE, body |-> b],
         [contentType |-> "application/json", parses |-> TRUE,
          body |-> [b EXCEPT !.jsonrpc = "1.0"]],
         [contentType |-> "text/plain", parses |-> TRUE,
          body |-> [b EXCEPT !.jsonrpc = "1.0"]]}

WellFormed(req) ==
    req.contentType = "application/json" /\ req.parses /\ ValidJsonRpc(req.body)

NoResult == [from |-> 0, cap |-> <<"none", 0>>, echo |-> "none"]

\* The JSON-RPC response to request `id`.
Response(id, outcome, result) ==
    [jsonrpc |-> "2.0", id |-> id, outcome |-> outcome, result |-> result]

\* The shared server answers on the transport it is connected to.
ReplyVia(trs, st, message) ==
    IF st \notin DOMAIN trs THEN [trs |-> trs, to |-> NoSid]
    ELSE LET r == Send(trs[st], message)
         IN  [trs |-> [trs EXCEPT ![st] = r.t],
              to |-> IF r.wrote THEN st ELSE NoSid]

\* A handler that skips the registry lookup and takes the captured key for
\* the upstream's address.
DispatchNoLookup(tid, body) ==
    [sid |-> tid, id |-> body.id, cap |-> body.name, args |-> body.args,
     key |-> handlers[body.name],
     url |-> CHOOSE u \in AllURLs : UrlToString(u) = handlers[body.name],
     down |-> ~reachable[CHOOSE u \in AllURLs : UrlToString(u) = handlers[body.name]],
     pc |-> "connect", outcome |-> "pending", again |-> FALSE,
     fwd |-> <<>>, result |-> NoResult, to |-> NoSid]

\* The installed handler up to its first await: the registry lookup.
\* History: again says the key was deleted from the registry earlier and
\* the last addTargetServer call, one with skipRegister, has put it back.
\*   const clientItem = this.targetClients.get(name);
\*   if (!clientItem) throw new Error(`Client for ${name} not found`);
Dispatch(tid, body) ==
    LET name == handlers[body.name]
        found == name \in DOMAIN targetClients
    IN  [sid |-> tid, id |-> body.id, cap |-> body.name, args |-> body.args,
         key |-> name,
         url |-> IF found THEN targetClients[name].url ELSE 0,
         down |-> IF found THEN ~reachable[targetClients[name].url] ELSE FALSE,
         pc |-> IF found THEN "connect" ELSE "done",
         outcome |-> IF found THEN "pending" ELSE "ClientNotFound",
         again |-> /\ found
                   /\ name \in log.removed
                   /\ log.last.result = "resolved"
                   /\ log.last.skip
                   /\ UrlToString(log.last.url) = name,
         fwd |-> <<>>, result |-> NoResult, to |-> NoSid]

\* A '/sessions' route that hands a POST for an unknown session id to the
\* transport opened last.
RouteSessionsLax(x, req) ==
    IF x = NoSid \/ (x \notin DOMAIN sessions /\ serverTransport = NoSid)
    THEN [t |-> NewTransport("/sessions", NoSid), status |-> 400, hit |-> FALSE,
          text |-> "Invalid session ID"]
    ELSE IF x \notin DOMAIN sessions
    THEN LET r == HandlePostMessage(transports[serverTransport], req)
         IN  [t |-> r.t, status |-> r.status, hit |-> FALSE, text |-> r.text]
    ELSE LET r == HandlePostMessage(transports[sessions[x]], req)
         IN  [t |-> r.t, status |-> r.status, hit |-> TRUE, text |-> r.text]

\* What the route '/sessions' answers to a POST with ?sessionId=x.
RouteSessions(x, req) ==
    IF x = NoSid \/ x \notin DOMAIN sessions
    THEN [t |-> NewTransport("/sessions", NoSid), status |-> 400, hit |-> FALSE,
          text |-> "Invalid session ID"]
    ELSE LET r == HandlePostMessage(transports[sessions[x]], req)
         IN  [t |-> r.t, status |-> r.status, hit |-> TRUE, text |-> r.text]

\* The onmessage callbacks a step fired: transport -> the payloads it got.
Fired(old, new) ==
    LET S == {s \in DOMAIN old : Len(new[s].received) > Len(old[s].received)}
    IN  {<<s, SubSeq(new[s].received, Len(old[s].received) + 1, Len(new[s].received))>> :
            s \in S}

PostSessions(x, req) ==
    /\ mainPc = "serving"
    /\ WellFormed(req) => Len(calls) < MaxCalls
    /\ (~WellFormed(req) /\ x \in DOMAIN sessions)
          => transports[sessions[x]].errors < MaxErrors
    /\ LET r == RouteSessions(x, req)
           trs1 == IF r.hit THEN [transports EXCEPT ![sessions[x]] = r.t]
                   ELSE transports
           c == Dispatch(sessions[x], req.body)
           msg == Response(c.id, c.outcome, c.result)
           rep == ReplyVia(trs1, serverTransport, msg)
       IN  /\ lastPost' = [x |-> x, live |-> x \in DOMAIN sessions,
                           wellFormed |-> WellFormed(req), body |-> req.body,
                           contentType |-> req.contentType, parses |-> req.parses,
                           status |-> r.status, text |-> r.text,
                           fired |-> Fired(transports, trs1)]
           /\ IF r.status = 202 /\ Fired(transports, trs1) # {}
              THEN IF c.pc = "done"
                   THEN /\ transports' = rep.trs
                        /\ calls' = Append(calls, [c EXCEPT !.to = rep.to])
                   ELSE /\ transports' = trs1
                        /\ calls' = Append(calls, c)
              ELSE /\ transports' = trs1
                   /\ calls' = calls
    /\ UNCHANGED boundaryVars
    /\ UNCHANGED <<reachable, startupVars, composerVars, clients, sessions,
                   serverTransport, lastSend, api, nextClient>>


(***************************************************************************)
(* The installed handlers after the lookup (composeTools,                  *)
(* composeResources, composePrompts: the same three steps).                *)
(***************************************************************************)
\* The upstream client a handler invocation opens.
CallClient(k) == [by |-> "call", n |-> k, url |-> calls[k].url]

\* A handler that forwards the name but not the caller's arguments.
ForwardedRequestNoArgs(c) == [to |-> c.url, cap |-> c.cap, args |-> "a"]

\* client.callTool({ name: tool.name, arguments: args }), and likewise
\* readResource / getPrompt: the request that goes to the upstream.
ForwardedRequest(c) == [to |-> c.url, cap |-> c.cap, args |-> c.args]

\* return result as CallToolResult
HandlerResult(upstreamResult) == upstreamResult

\* The handler threw: the shared server answers with a JSON-RPC error.
CallFails(k, outcome) ==
    LET c == calls[k]
        rep == ReplyVia(transports, serverTransport, Response(c.id, outcome, NoResult))
    IN  /\ transports' = rep.trs
        /\ calls' = [calls EXCEPT ![k].pc = "done", ![k].outcome = outcome,
                                  ![k].to = rep.to]

\* await client.connect(new SSEClientTransport(clientItem.url))
CallConnectOk(k) ==
    /\ mainPc = "serving"
    /\ calls[k].pc = "connect"
    /\ reachable[calls[k].url]
    /\ clients' = clients \cup {CallClient(k)}
    /\ calls' = [calls EXCEPT ![k].pc = "call"]
    /\ UNCHANGED boundaryVars
    /\ UNCHANGED <<reachable, startupVars, composerVars, frontendVars, api,
                   nextClient>>

CallConnectFail(k) ==
    /\ mainPc = "serving"
    /\ calls[k].pc = "connect"
    /\ ~reachable[calls[k].url]
    /\ CallFails(k, "ConnectError")
    /\ UNCHANGED boundaryVars
    /\ UNCHANGED <<reachable, startupVars, composerVars, clients, sessions,
                   serverTransport, lastPost, lastSend, api, nextClient>>

\* const result = await client.callTool(...)
CallForwardOk(k) ==
    /\ mainPc = "serving"
    /\ calls[k].pc = "call"
    /\ reachable[calls[k].url]
    /\ LET req == ForwardedRequest(calls[k])
       IN  calls' = [calls EXCEPT ![k].pc = "return",
                                  ![k].fwd = Append(@, req),
                                  ![k].result = UpstreamResult(req.to, req.cap, req.args)]
    /\ UNCHANGED boundaryVars
    /\ UNCHANGED <<reachable, startupVars, composerVars, clients, frontendVars, api,
                   nextClient>>

\* client.callTool(...) threw: client.close() is not reached.
CallForwardFail(k) ==
    /\ mainPc = "serving"
    /\ calls[k].pc = "call"
    /\ ~reachable[calls[k].url]
    /\ CallFails(k, "UpstreamError")
    /\ UNCHANGED boundaryVars
    /\ UNCHANGED <<reachable, startupVars, composerVars, clients, sessions,
                   serverTransport, lastPost, lastSend, api, nextClient>>

\* await client.close(); return result: the shared server sends the response.
CallReturn(k) ==
    /\ mainPc = "serving"
    /\ calls[k].pc = "return"
    /\ clients' = clients \ {CallClient(k)}
    /\ LET c == calls[k]
           rep == ReplyVia(transports, serverTransport,
                           Response(c.id, "ok", HandlerResult(c.result)))
       IN  /\ transports' = rep.trs
           /\ calls' = [calls EXCEPT ![k].pc = "done", ![k].outcome = "ok",
                                     ![k].to = rep.to]
    /\ UNCHANGED boundaryVars
    /\ UNCHANGED <<reachable, startupVars, composerVars, sessions, serverTransport,
                   lastPost, lastSend, api, nextClient>>

\* A close() whose onclose leaves this.transports as it is.
CloseSessionKeeping(s) ==
    /\ mainPc = "serving"
    /\ transports[s].closeCalls < MaxCloses
    /\ transports' = [transports EXCEPT ![s] = Close(@)]
    /\ sessions' = sessions
    /\ UNCHANGED boundaryVars
    /\ UNCHANGED <<reachable, startupVars, composerVars, clients, serverTransport,
                   calls, lastPost, lastSend, api, nextClient>>

\* transport.close() on a session's transport; the onclose installed by
\* route '/' deletes this.transports[transport.sessionId].
CloseSession(s) ==
    /\ mainPc = "serving"
    /\ transports[s].closeCalls < MaxCloses
    /\ transports' = [transports EXCEPT ![s] = Close(@)]
    /\ sessions' = IF Close(transports[s]).closed > transports[s].closed
                   THEN MapDelete(sessions, transports[s].sessionId)
                   ELSE sessions
    /\ UNCHANGED boundaryVars
    /\ UNCHANGED <<reachable, startupVars, composerVars, clients, serverTransport,
                   calls, lastPost, lastSend, api, nextClient>>

Next ==
    \/ \E u \in URLs : UpstreamDown(u) \/ UpstreamUp(u)
    \/ LoadTargets
    \/ \E i \in DOMAIN passes :
          \/ ConnectOk(i)
          \/ ConnectFail(i)
          \/ RetryTimer(i)
          \/ ListToolsOk(i)
          \/ ListResourcesOk(i)
          \/ ListPromptsOk(i)
          \/ ListFail(i)
          \/ RegisterThrows(i)
    \/ GetRoot
    \/ \E x \in SIDs \cup {NoSid} : \E req \in GoodRequests(x) :
          PostSessions(x, req)
    \/ \E k \in DOMAIN calls :
          \/ CallConnectOk(k)
          \/ CallConnectFail(k)
          \/ CallForwardOk(k)
          \/ CallForwardFail(k)
          \/ CallReturn(k)
    \/ \E s \in DOMAIN transports : CloseSession(s)

Spec == Init /\ [][Next]_vars


(***************************************************************************)
(* Startup alone, with the scheduling the event loop gives: a connect      *)
(* attempt and a listing request complete, a timer that is set fires.      *)
(***************************************************************************)
NextStartup ==
    \/ \E u \in URLs : UpstreamDown(u) \/ UpstreamUp(u)
    \/ LoadTargets
    \/ \E i \in DOMAIN passes :
          \/ ConnectOk(i)
          \/ ConnectFail(i)
          \/ RetryTimer(i)
          \/ ListToolsOk(i)
          \/ ListResourcesOk(i)
          \/ ListPromptsOk(i)
          \/ ListFail(i)
          \/ RegisterThrows(i)

ConnectCompletes == \E i \in DOMAIN passes : ConnectOk(i) \/ ConnectFail(i)
TimerFires == \E i \in DOMAIN passes : RetryTimer(i)
ListingCompletes ==
    \E i \in DOMAIN passes :
        \/ ListToolsOk(i) \/ ListResourcesOk(i) \/ ListPromptsOk(i)
        \/ ListFail(i) \/ RegisterThrows(i)

SpecStartup ==
    /\ Init
    /\ [][NextStartup]_vars
    /\ WF_vars(LoadTargets)
    /\ WF_vars(ConnectCompletes)
    /\ WF_vars(TimerFires)
    /\ WF_vars(ListingCompletes)


(***************************************************************************)
(* The program in front of upstreams that neither go down nor come up      *)
(* while it runs, with clients that also POST malformed requests.          *)
(***************************************************************************)
\* What a client POSTs here: a call of upstream 1's tool, or a malformed
\* request.
FrontendRequests(x) ==
    {req \in GoodRequests(x) : req.body.name = <<"tool", 1>> /\ req.body.args = "a"}
        \cup BadRequests

NextFrontend ==
    \/ LoadTargets
    \/ \E i \in DOMAIN passes : ConnectOk(i)
    \/ \E i \in DOMAIN passes : ConnectFail(i)
    \/ \E i \in DOMAIN passes : RetryTimer(i)
    \/ \E i \in DOMAIN passes : ListToolsOk(i)
    \/ \E i \in DOMAIN passes : ListResourcesOk(i)
    \/ \E i \in DOMAIN passes : ListPromptsOk(i)
    \/ \E i \in DOMAIN passes : RegisterThrows(i)
    \/ GetRoot
    \/ \E x \in SIDs \cup {NoSid} : \E req \in FrontendRequests(x) :
          PostSessions(x, req)
    \/ \E k \in DOMAIN calls : CallConnectOk(k)
    \/ \E k \in DOMAIN calls : CallForwardOk(k)
    \/ \E k \in DOMAIN calls : CallReturn(k)
    \/ \E s \in DOMAIN transports : CloseSession(s)

SpecFrontend == Init /\ [][NextFrontend]_vars


(***************************************************************************)
(* One BunSSEServerTransport driven through its public methods.            *)
(***************************************************************************)
TheSid == 1

InitTransport ==
    /\ InitCommon
    /\ config \in Configs
    /\ mainPc = "init"

\* new BunSSEServerTransport('/sessions') and the owner's callbacks.
TNew ==
    /\ transports = EmptyMap
    /\ transports' = MapSet(transports, TheSid,
                            [NewTransport("/sessions", TheSid)
                                EXCEPT !.onmessage = TRUE, !.onclose = TRUE])
    /\ UNCHANGED boundaryVars
    /\ UNCHANGED <<reachable, startupVars, composerVars, clients, sessions,
                   serverTransport, calls, lastPost, lastSend, api, nextClient>>

ApiCall ==
    /\ TheSid \in DOMAIN transports
    /\ api < MaxApiCalls
    /\ api' = api + 1

TCreateResponse ==
    /\ ApiCall
    /\ transports' = [transports EXCEPT ![TheSid] = CreateResponse(@)]
    /\ UNCHANGED boundaryVars
    /\ UNCHANGED <<reachable, startupVars, composerVars, clients, sessions,
                   serverTransport, calls, lastPost, lastSend, nextClient>>

TStart ==
    /\ ApiCall
    /\ transports' = [transports EXCEPT ![TheSid] = Start(@)]
    /\ UNCHANGED boundaryVars
    /\ UNCHANGED <<reachable, startupVars, composerVars, clients, sessions,
                   serverTransport, calls, lastPost, lastSend, nextClient>>

TRequests ==
    {[contentType |-> "application/json", parses |-> TRUE,
      body |-> CallBody(i, <<"tool", 1>>, "a")] : i \in {1, 2}} \cup BadRequests

THandlePostMessage(req) ==
    /\ ApiCall
    /\ LET r == HandlePostMessage(transports[TheSid], req)
       IN  /\ transports' = [transports EXCEPT ![TheSid] = r.t]
           /\ lastPost' = [x |-> TheSid, live |-> TRUE, wellFormed |-> WellFormed(req),
                           contentType |-> req.contentType, parses |-> req.parses,
                           body |-> req.body, status |-> r.status,
                           text |-> r.text,
                           fired |-> Fired(transports, transports')]
    /\ UNCHANGED boundaryVars
    /\ UNCHANGED <<reachable, startupVars, composerVars, clients, sessions,
                   serverTransport, calls, lastSend, nextClient>>

TSend(id) ==
    /\ ApiCall
    /\ LET r == Send(transports[TheSid], Response(id, "ok", NoResult))
       IN  /\ transports' = [transports EXCEPT ![TheSid] = r.t]
           /\ lastSend' = [outcome |-> IF r.threw THEN "NotConnected"
                                       ELSE IF r.wrote THEN "sent"
                                       ELSE "WriteFailed",
                           closeCalls |-> transports[TheSid].closeCalls,
                           streams |-> transports[TheSid].streams,
                           wrote |-> r.t.stream # transports[TheSid].stream]
    /\ UNCHANGED boundaryVars
    /\ UNCHANGED <<reachable, startupVars, composerVars, clients, sessions,
                   serverTransport, calls, lastPost, nextClient>>

TClose ==
    /\ ApiCall
    /\ transports' = [transports EXCEPT ![TheSid] = Close(@)]
    /\ UNCHANGED boundaryVars
    /\ UNCHANGED <<reachable, startupVars, composerVars, clients, sessions,
                   serverTransport, calls, lastPost, lastSend, nextClient>>

\* The downstream peer goes away: the runtime cancels the response body the
\* transport writes to, which errors the stream. No method of the transport
\* and no callback of the route runs.
PeerDisconnect(s) ==
    /\ Alive
    /\ transports[s].writer
    /\ ~transports[s].broken
    /\ transports' = [transports EXCEPT ![s].broken = TRUE]
    /\ UNCHANGED boundaryVars
    /\ UNCHANGED <<reachable, startupVars, composerVars, clients, sessions,
                   serverTransport, calls, lastPost, lastSend, api, nextClient>>

NextTransport ==
    \/ TNew
    \/ \E s \in DOMAIN transports : PeerDisconnect(s)
    \/ TCreateResponse
    \/ TStart
    \/ \E req \in TRequests : THandlePostMessage(req)
    \/ \E id \in {1, 2} : TSend(id)
    \/ TClose

SpecTransport == InitTransport /\ [][NextTransport]_vars

(***************************************************************************)
(* McpServerComposer, the revision that keeps the connected Client in      *)
(* targetClients and sets its onclose and onerror to                       *)
(* handleTargetServerClose (part_006 lines 466-610).                       *)
(***************************************************************************)
MaxClients == 3
MaxErrorChains == 1

\* The connected client of a pass: it stays open after the pass.
WiredClient(n, u) == [by |-> "wired", n |-> n, url |-> u]

\* this.targetClients.set(name, targetClient)
LiveEntry(n, u) == [clientInfo |-> ClientInfoOf(u), url |-> u, client |-> n]

\* connect succeeded: the callbacks are set, the client is stored.
WConnectOk(i) ==
    /\ Alive
    /\ passes[i].pc = "connect"
    /\ reachable[passes[i].url]
    /\ nextClient < MaxClients
    /\ nextClient' = nextClient + 1
    /\ clients' = clients \cup {WiredClient(nextClient + 1, passes[i].url)}
    /\ targetClients' = MapSet(targetClients, UrlToString(passes[i].url),
                               LiveEntry(nextClient + 1, passes[i].url))
    /\ UNCHANGED boundaryVars
    /\ UNCHANGED <<reachable, config, handlers, frontendVars, calls, api>>
    /\ IF passes[i].skip
       THEN PassResolves(i, {})
       ELSE /\ passes' = [passes EXCEPT ![i].pc = "listTools",
                                        ![i].client = nextClient + 1]
            /\ UNCHANGED <<idx, mainPc, log>>

\* The three listings, over the pass's own client.
WListOk(i) ==
    /\ Alive
    /\ passes[i].pc \in {"listTools", "listResources", "listPrompts"}
    /\ reachable[passes[i].url]
    /\ WiredClient(passes[i].client, passes[i].url) \in clients
    /\ AlreadyRegistered(handlers, Listed(passes[i].url, passes[i].pc)) = {}
    /\ UNCHANGED boundaryVars
    /\ UNCHANGED <<reachable, config, targetClients, clients, frontendVars, calls,
                   api, nextClient>>
    /\ LET u == passes[i].url
           name == UrlToString(u)
           got == passes[i].installed \cup Listed(u, passes[i].pc)
       IN  CASE passes[i].pc = "listTools" ->
                   /\ handlers' = composeTools(handlers, ListTools(u), name)
                   /\ passes' = [passes EXCEPT ![i].pc = "listResources",
                                               ![i].installed = got]
                   /\ UNCHANGED <<idx, mainPc, log>>
             [] passes[i].pc = "listResources" ->
                   /\ handlers' = composeResources(handlers, ListResources(u), name)
                   /\ passes' = [passes EXCEPT ![i].pc = "listPrompts",
                                               ![i].installed = got]
                   /\ UNCHANGED <<idx, mainPc, log>>
             [] passes[i].pc = "listPrompts" ->
                   /\ handlers' = composePrompts(handlers, ListPrompts(u), name)
                   /\ PassResolves(i, got)

\* A listing threw (the upstream is gone, the client was closed) or the
\* registration of a listed name threw.
WListFail(i) ==
    /\ Alive
    /\ passes[i].pc \in {"listTools", "listResources", "listPrompts"}
    /\ \/ ~reachable[passes[i].url]
       \/ WiredClient(passes[i].client, passes[i].url) \notin clients
       \/ AlreadyRegistered(handlers, Listed(passes[i].url, passes[i].pc)) # {}
    /\ UNCHANGED boundaryVars
    /\ UNCHANGED <<reachable, config, composerVars, clients, frontendVars, calls,
                   api, nextClient>>
    /\ PassRejects(i)

\* handleTargetServerClose(name, url, clientInfo)(): the callback a stored
\* client runs when its session to the upstream closes or errors.
\*   this.targetClients.delete(name);
\*   return this.addTargetServer(targetServerUrl, clientInfo, true);
handleTargetServerClose(c) ==
    /\ Alive
    /\ c \in clients
    /\ c.by = "wired"
    /\ clients' = clients \ {c}
    /\ targetClients' = MapDelete(targetClients, UrlToString(c.url))
    /\ log' = [log EXCEPT !.removed = @ \cup {UrlToString(c.url)}]
    /\ passes' = Append(passes, NewPassIn(targetClients', c.url, TRUE, "reconnect"))
    /\ UNCHANGED boundaryVars
    /\ UNCHANGED <<reachable, config, mainPc, idx, handlers, frontendVars, calls,
                   api, nextClient>>

\* The same callback as the stored client's onerror: the session to the
\* upstream reported an error and is not closed by that. The error is
\* reported while fewer than MaxErrorChains reconnects of the upstream are
\* under way.
ClientOnError(c) ==
    /\ Alive
    /\ c \in clients
    /\ c.by = "wired"
    /\ Cardinality({i \in DOMAIN passes : /\ passes[i].url = c.url
                                          /\ passes[i].origin = "reconnect"})
          < MaxErrorChains
    /\ targetClients' = MapDelete(targetClients, UrlToString(c.url))
    /\ log' = [log EXCEPT !.removed = @ \cup {UrlToString(c.url)}]
    /\ passes' = Append(passes, NewPassIn(targetClients', c.url, TRUE, "reconnect"))
    /\ UNCHANGED boundaryVars
    /\ UNCHANGED <<reachable, config, mainPc, idx, handlers, clients, frontendVars,
                   calls, api, nextClient>>

NextWired ==
    \/ \E u \in URLs : UpstreamDown(u) \/ UpstreamUp(u)
    \/ LoadTargets
    \/ \E i \in DOMAIN passes : WConnectOk(i)
    \/ \E i \in DOMAIN passes : ConnectFail(i)
    \/ \E i \in DOMAIN passes : RetryTimer(i)
    \/ \E i \in DOMAIN passes : WListOk(i)
    \/ \E i \in DOMAIN passes : WListFail(i)
    \/ \E c \in clients : handleTargetServerClose(c)

SpecWired == Init /\ [][NextWired]_vars

(***************************************************************************)
(* The same revision in front of one upstream, with both callbacks of the  *)
(* stored client: onclose and onerror.                                     *)
(***************************************************************************)
InitReconnect ==
    /\ InitCommon
    /\ config = <<1>>
    /\ mainPc = "init"

NextReconnect ==
    \/ UpstreamDown(1) \/ UpstreamUp(1)
    \/ LoadTargets
    \/ \E i \in DOMAIN passes : WConnectOk(i)
    \/ \E i \in DOMAIN passes : ConnectFail(i)
    \/ \E i \in DOMAIN passes : RetryTimer(i)
    \/ \E i \in DOMAIN passes : WListOk(i)
    \/ \E i \in DOMAIN passes : WListFail(i)
    \/ \E c \in clients : handleTargetServerClose(c)
    \/ \E c \in clients : ClientOnError(c)

SpecReconnect == InitReconnect /\ [][NextReconnect]_vars

(***************************************************************************)
(* McpServerComposer of the current revision, driven through its public    *)
(* methods (addTargetServer, disconnect) and through the handlers it has   *)
(* installed on the exposed server, in a process that is serving.          *)
(***************************************************************************)
MaxActive == 1
MaxComposerCalls == 3
MaxInvokes == 1

\* The upstreams the caller names: upstream 1 and the one sharing its tool name.
ComposerURLs == {1, Twin}

InitComposer ==
    /\ InitCommon
    /\ config = <<>>
    /\ mainPc = "serving"

\* addTargetServer(targetServerUrl, clientInfo, skipRegister) is called.
AddTargetServer(u, skip) ==
    /\ Alive
    /\ api < MaxComposerCalls
    /\ Len(passes) < MaxActive
    /\ \A i \in DOMAIN passes : passes[i].url # u
    /\ api' = api + 1
    /\ passes' = Append(passes, NewPass(u, skip, "api"))
    /\ UNCHANGED boundaryVars
    /\ UNCHANGED <<reachable, config, mainPc, idx, log, composerVars, clients,
                   frontendVars, calls, nextClient>>

\* A disconnect that also drops the handlers whose closure captured the key.
DisconnectUninstalling(name) ==
    /\ Alive
    /\ api < MaxComposerCalls
    /\ api' = api + 1
    /\ targetClients' = MapDelete(targetClients, name)
    /\ handlers' = [c \in {d \in DOMAIN handlers : handlers[d] # name} |-> handlers[c]]
    /\ log' = [log EXCEPT !.removed = @ \cup {name}]
    /\ UNCHANGED boundaryVars
    /\ UNCHANGED <<reachable, config, mainPc, idx, passes, clients, frontendVars,
                   calls, nextClient>>

\* disconnect(clientName): the descriptor, if there is one, is deleted.
Disconnect(name) ==
    /\ Alive
    /\ api < MaxComposerCalls
    /\ api' = api + 1
    /\ IF name \in DOMAIN targetClients
       THEN /\ targetClients' = MapDelete(targetClients, name)
            /\ log' = [log EXCEPT !.removed = @ \cup {name}]
       ELSE UNCHANGED <<targetClients, log>>
    /\ UNCHANGED boundaryVars
    /\ UNCHANGED <<reachable, config, mainPc, idx, passes, handlers, clients,
                   frontendVars, calls, nextClient>>

\* A disconnectAll that stops after the first key.
disconnectAllFirstOnly(registry) ==
    IF DOMAIN registry = {} THEN registry
    ELSE MapDelete(registry, CHOOSE k \in DOMAIN registry : TRUE)

\* disconnectAll(): for (const client of this.targetClients.keys())
\* await this.disconnect(client). The keys iterator of a Map goes on to the
\* remaining entries after the entry it stands on is deleted.
RECURSIVE disconnectAll(_)
disconnectAll(registry) ==
    IF DOMAIN registry = {} THEN registry
    ELSE disconnectAll(MapDelete(registry, CHOOSE k \in DOMAIN registry : TRUE))

\* disconnectAll() is called and returns; its awaits resolve without I/O,
\* no connect or listing completes in between.
DisconnectAll ==
    /\ Alive
    /\ api < MaxComposerCalls
    /\ api' = api + 1
    /\ targetClients' = disconnectAll(targetClients)
    /\ log' = [log EXCEPT !.removed = @ \cup (DOMAIN targetClients
                                                \ DOMAIN targetClients'),
                          !.cleared = @ + 1]
    /\ UNCHANGED boundaryVars
    /\ UNCHANGED <<reachable, config, mainPc, idx, passes, handlers, clients,
                   frontendVars, calls, nextClient>>

\* The exposed server invokes the handler installed for cap.
Invoke(cap, a) ==
    /\ mainPc = "serving"
    /\ Len(calls) < MaxInvokes
    /\ cap \in DOMAIN handlers
    /\ calls' = Append(calls, Dispatch(NoSid, CallBody(Len(calls) + 1, cap, a)))
    /\ UNCHANGED boundaryVars
    /\ UNCHANGED <<reachable, startupVars, composerVars, clients, frontendVars, api,
                   nextClient>>

NextComposer ==
    \/ \E u \in ComposerURLs \cap URLs : UpstreamDown(u) \/ UpstreamUp(u)
    \/ \E u \in ComposerURLs, skip \in BOOLEAN : AddTargetServer(u, skip)
    \/ \E u \in ComposerURLs : Disconnect(UrlToString(u))
    \/ DisconnectAll
    \/ \E i \in DOMAIN passes : ConnectOk(i)
    \/ \E i \in DOMAIN passes : ConnectFail(i)
    \/ \E i \in DOMAIN passes : RetryTimer(i)
    \/ \E i \in DOMAIN passes : ListToolsOk(i)
    \/ \E i \in DOMAIN passes : ListResourcesOk(i)
    \/ \E i \in DOMAIN passes : ListPromptsOk(i)
    \/ \E i \in DOMAIN passes : ListFail(i)
    \/ \E i \in DOMAIN passes : RegisterThrows(i)
    \/ \E cap \in DOMAIN handlers : \E a \in ArgsOf(cap) : Invoke(cap, a)
    \/ \E k \in DOMAIN calls : CallConnectOk(k)
    \/ \E k \in DOMAIN calls : CallConnectFail(k)
    \/ \E k \in DOMAIN calls : CallForwardOk(k)
    \/ \E k \in DOMAIN calls : CallForwardFail(k)
    \/ \E k \in DOMAIN calls : CallReturn(k)

SpecComposer == InitComposer /\ [][NextComposer]_vars

(***************************************************************************)
(* The program from its command line to its routes: main() from            *)
(* parseCliOptions on, in front of upstreams that stay as they are, and    *)
(* clients that GET the paths.                                             *)
(***************************************************************************)
InitMain ==
    /\ InitCore
    /\ cli \in CliInputs
    /\ config = <<>>
    /\ mainPc = "start"
    /\ schemaIn = NoSchema
    /\ zodOut = NoZod

NextMain ==
    \/ ParseCliOptions
    \/ LoadConfig
    \/ SelectServers
    \/ LoadTargets
    \/ \E i \in DOMAIN passes : ConnectOk(i)
    \/ \E i \in DOMAIN passes : ConnectFail(i)
    \/ \E i \in DOMAIN passes : RetryTimer(i)
    \/ \E i \in DOMAIN passes : ListToolsOk(i)
    \/ \E i \in DOMAIN passes : ListResourcesOk(i)
    \/ \E i \in DOMAIN passes : ListPromptsOk(i)
    \/ \E i \in DOMAIN passes : RegisterThrows(i)
    \/ GetRoot
    \/ \E path \in OtherPaths : Get(path)

SpecMain == InitMain /\ [][NextMain]_vars

(***************************************************************************)
(* The sessions of the program from their opening to the end of the        *)
(* process, in front of upstreams that stay as they are: peers that go     *)
(* away, transports that are closed, a signal that ends the process. With  *)
(* the scheduling the event loop gives to startup; nothing obliges a       *)
(* client to connect, a peer to go away or a signal to arrive.             *)
(***************************************************************************)
NextSessions ==
    \/ LoadTargets
    \/ \E i \in DOMAIN passes : ConnectOk(i)
    \/ \E i \in DOMAIN passes : ConnectFail(i)
    \/ \E i \in DOMAIN passes : RetryTimer(i)
    \/ \E i \in DOMAIN passes : ListToolsOk(i)
    \/ \E i \in DOMAIN passes : ListResourcesOk(i)
    \/ \E i \in DOMAIN passes : ListPromptsOk(i)
    \/ \E i \in DOMAIN passes : RegisterThrows(i)
    \/ GetRoot
    \/ \E s \in DOMAIN transports : PeerDisconnect(s)
    \/ \E s \in DOMAIN transports : CloseSession(s)
    \/ Signal

SpecSessions ==
    /\ Init
    /\ [][NextSessions]_vars
    /\ WF_vars(LoadTargets)
    /\ WF_vars(ConnectCompletes)
    /\ WF_vars(TimerFires)
    /\ WF_vars(ListingCompletes)

(***************************************************************************)
(* jsonSchemaToZod applied to a schema.                                    *)
(***************************************************************************)
InitSchema ==
    /\ InitCore
    /\ cli = NoCli
    /\ config \in Configs
    /\ mainPc = "init"
    /\ schemaIn \in Schemas
    /\ zodOut = NoZod

\* const schemaObject = jsonSchemaToZod(tool.inputSchema)
Convert ==
    /\ ~zodOut.done
    /\ zodOut' = [done |-> TRUE, shape |-> jsonSchemaToZod(schemaIn)]
    /\ UNCHANGED <<cli, schemaIn, lastGet, invocation>>
    /\ UNCHANGED <<reachable, startupVars, composerVars, clients, frontendVars,
                   calls, api, nextClient>>

NextSchema == Convert

SpecSchema == InitSchema /\ [][NextSchema]_vars

(***************************************************************************)
(* One capability of an upstream from its registration to a request for    *)
(* it: composeTools / composePrompts convert what the upstream advertises  *)
(* and register the shape, the exposed server validates a request against  *)
(* it before the handler runs.                                             *)
(***************************************************************************)
InitValidation ==
    /\ InitCore
    /\ cli = NoCli
    /\ config = <<>>
    /\ mainPc = "serving"
    /\ schemaIn \in ToolInputs \cup PromptInputs
    /\ zodOut = NoZod

\* composeTools: this.server.tool(tool.name, ..., jsonSchemaToZod(tool.inputSchema), cb)
RegisterTool ==
    /\ schemaIn.of = "tool"
    /\ ~zodOut.done
    /\ zodOut' = [done |-> TRUE, shape |-> jsonSchemaToZod(schemaIn)]
    /\ UNCHANGED <<cli, schemaIn, lastGet, invocation>>
    /\ UNCHANGED <<reachable, startupVars, composerVars, clients, frontendVars,
                   calls, api, nextClient>>

\* composePrompts: this.server.prompt(prompt.name, ..., jsonSchemaToZod(prompt.arguments), cb)
RegisterPrompt ==
    /\ schemaIn.of = "prompt"
    /\ ~zodOut.done
    /\ zodOut' = [done |-> TRUE, shape |-> jsonSchemaToZod(schemaIn)]
    /\ UNCHANGED <<cli, schemaIn, lastGet, invocation>>
    /\ UNCHANGED <<reachable, startupVars, composerVars, clients, frontendVars,
                   calls, api, nextClient>>

\* tools/call for the registered tool.
CallTool(args) ==
    /\ schemaIn.of = "tool"
    /\ zodOut.done
    /\ invocation.op = "none"
    /\ invocation' = Validated("callTool", zodOut.shape, args)
    /\ UNCHANGED <<cli, schemaIn, zodOut, lastGet>>
    /\ UNCHANGED <<reachable, startupVars, composerVars, clients, frontendVars,
                   calls, api, nextClient>>

\* prompts/get for the registered prompt.
GetPrompt(args) ==
    /\ schemaIn.of = "prompt"
    /\ zodOut.done
    /\ invocation.op = "none"
    /\ invocation' = Validated("getPrompt", zodOut.shape, args)
    /\ UNCHANGED <<cli, schemaIn, zodOut, lastGet>>
    /\ UNCHANGED <<reachable, startupVars, composerVars, clients, frontendVars,
                   calls, api, nextClient>>

NextValidation ==
    \/ RegisterTool
    \/ RegisterPrompt
    \/ \E args \in ToolArgs : CallTool(args)
    \/ \E args \in PromptArgs : GetPrompt(args)

SpecValidation == InitValidation /\ [][NextValidation]_vars

(***************************************************************************)
(* Properties.                                                             *)
(***************************************************************************)
\* The upstream that advertises a capability.
Owner(cap) ==
    CHOOSE u \in URLs : cap \in ListTools(u) \cup ListResources(u) \cup ListPrompts(u)

Done(k) == calls[k].pc = "done"

\* The message events on the stream of session s.
Messages(s) ==
    {transports[s].stream[i].data :
        i \in {j \in DOMAIN transports[s].stream :
                  transports[s].stream[j].event = "message"}}

\* C1 (as claimed): an upstream that cannot be reached at startup does not
\* block startup: whenever a registration pass sits in its retry timer, the
\* HTTP frontend is eventually started (or the process has exited).
C1_StartupNotBlocked ==
    [](((\E i \in DOMAIN passes : passes[i].pc = "timer"))
          => <>(mainPc \in {"serving", "exited"}))

C3_ResponseOnOwnStream ==
    \A k \in DOMAIN calls :
        (Done(k) /\ calls[k].to # NoSid) => calls[k].to = calls[k].sid

\* C4: a well-formed POST to a session id in the sessions map is answered 202
\* and fires exactly one onmessage, on that session's transport, with the
\* posted payload; to any other session id it is answered 400 and fires none.
C4_PostAccepted ==
    (lastPost # NoPost /\ lastPost.wellFormed) =>
        IF lastPost.live
        THEN /\ lastPost.status = 202
             /\ lastPost.fired = {<<lastPost.x, <<lastPost.body>>>>}
        ELSE /\ lastPost.status = 400
             /\ lastPost.fired = {}

C4_Witness ==
    /\ lastPost.wellFormed /\ lastPost.live /\ lastPost.status = 202
    /\ Cardinality(DOMAIN sessions) = 2

Registered(u) ==
    /\ UrlToString(u) \in DOMAIN targetClients
    /\ ListTools(u) \cup ListResources(u) \cup ListPrompts(u) \subseteq DOMAIN handlers

\* C8: a failed connect always sets the retry timer, and the timer always
\* leads to a fresh connect of the same upstream with the same skipRegister,
\* however many attempts have failed before; and an upstream that is being
\* connected or retried and stays reachable from some point on is eventually
\* in the registry under its URL string with its capabilities installed
\* (skipRegister is false for every pass of startup).
C8_RetryUntilRegistered ==
    /\ [][\A i \in DOMAIN passes :
            (passes' # passes /\ passes[i].pc = "connect"
                /\ ~reachable[passes[i].url])
               => /\ Len(passes') = Len(passes)
                  /\ passes'[i] = [passes[i] EXCEPT !.pc = "timer"]]_vars
    /\ [][\A i \in DOMAIN passes :
            (passes' # passes /\ passes[i].pc = "timer")
               => /\ Len(passes') = Len(passes)
                  /\ passes'[i].pc = "connect"
                  /\ passes'[i].url = passes[i].url
                  /\ passes'[i].skip = passes[i].skip]_vars
    /\ \A u \in URLs :
          []((/\ \E i \in DOMAIN passes :
                    /\ passes[i].url = u
                    /\ passes[i].pc \in {"connect", "timer"}
                    /\ ~passes[i].skip
              /\ [](reachable[u]))
                => <>Registered(u))

C8_Witness ==
    \E i \in DOMAIN passes :
        /\ passes[i].waited >= 2
        /\ passes[i].pc = "listPrompts"
        /\ UrlToString(passes[i].url) \in DOMAIN targetClients
        /\ ListTools(passes[i].url) \subseteq DOMAIN handlers
        /\ passes[i].url = 2

\* C9 (as claimed): a call that arrives while its registered upstream is
\* down, and fails, fails with ClientNotFound.
C9_OutageIsClientNotFound ==
    \A k \in DOMAIN calls :
        (Done(k) /\ calls[k].down /\ calls[k].outcome # "ok")
            => calls[k].outcome = "ClientNotFound"


\* C5 (as claimed): however often close() is called on a transport, onclose
\* is invoked exactly once.
C5_OnCloseOnce ==
    \A s \in DOMAIN transports :
        transports[s].closeCalls >= 1 => transports[s].closed = 1

\* C6 (as claimed): a transport that has been closed never has a writer
\* again and never accepts a POST again.
C6_NeverReopens ==
    \A s \in DOMAIN transports :
        transports[s].closeCalls >= 1 =>
            /\ ~transports[s].writer
            /\ ~transports[s].sseResponse

\* C10 (as claimed): the reconnect that follows the close of a registered
\* upstream's session has skipRegister = true and makes its first connect
\* attempt only after the retry interval has passed.
C10_ReconnectAfterInterval ==
    \A i \in DOMAIN passes :
        passes[i].origin = "reconnect" =>
            /\ passes[i].skip
            /\ passes[i].pc = "connect" => passes[i].waited >= 1


\* C11: no step removes an installed handler or changes the key it captured,
\* whatever happens to the registry; and a call that is dispatched after the
\* key was deleted and put back by an addTargetServer call with skipRegister
\* is not answered ClientNotFound, can fail only while the upstream is
\* unreachable, and when it succeeds it has forwarded the call to the
\* re-inserted upstream and returns that upstream's result.
C11_HandlersStay ==
    /\ [][\A c \in DOMAIN handlers :
            c \in DOMAIN handlers' /\ handlers'[c] = handlers[c]]_vars
    /\ [][\A k \in DOMAIN calls :
            (calls[k].again /\ calls[k].pc # "done" /\ calls'[k].pc = "done"
                /\ calls'[k].outcome # "ok")
               => ~reachable[calls[k].url]]_vars
    /\ [](\A k \in DOMAIN calls :
            calls[k].again =>
               /\ calls[k].outcome # "ClientNotFound"
               /\ UrlToString(calls[k].url) = handlers[calls[k].cap]
               /\ (Done(k) /\ calls[k].outcome = "ok") =>
                     /\ calls[k].fwd = <<[to |-> calls[k].url, cap |-> calls[k].cap,
                                          args |-> calls[k].args]>>
                     /\ calls[k].result
                           = UpstreamResult(calls[k].url, calls[k].cap, calls[k].args))

C11_Witness ==
    \E k \in DOMAIN calls :
        /\ calls[k].again /\ Done(k) /\ calls[k].outcome = "ok"
        /\ log.last.installed = {}

\* C12: the step that dispatches a request to a handler either finds the
\* handler's captured key in the registry and goes on to connect to the
\* registered url, or ends the request at once with ClientNotFound, opening
\* no upstream client and forwarding nothing; a request answered
\* ClientNotFound never has a client or a forwarded call.
C12_FoundOrClientNotFound ==
    /\ [][Len(calls') = Len(calls) + 1 =>
            LET c == calls'[Len(calls')]
                name == handlers[c.cap]
            IN  IF name \in DOMAIN targetClients
                THEN /\ c.pc = "connect"
                     /\ c.outcome = "pending"
                     /\ c.url = targetClients[name].url
                ELSE /\ c.pc = "done"
                     /\ c.outcome = "ClientNotFound"
                     /\ c.fwd = <<>>
                     /\ clients' = clients]_vars
    /\ [](\A k \in DOMAIN calls :
            calls[k].outcome = "ClientNotFound" =>
               /\ Done(k)
               /\ calls[k].fwd = <<>>
               /\ ~\E c \in clients : c.by = "call" /\ c.n = k)

C12_Witness ==
    \E k \in DOMAIN calls :
        /\ calls[k].outcome = "ClientNotFound"
        /\ calls[k].cap \in DOMAIN handlers


\* C13 (as claimed): when a handler has finished, whether the upstream call
\* succeeded or failed, the upstream client it opened is closed.
C13_CallClientClosed ==
    \A k \in DOMAIN calls :
        Done(k) => ~\E c \in clients : c.by = "call" /\ c.n = k

\* C14 (as claimed): when an addTargetServer call has ended, the upstream
\* client it opened is closed.
C14_PassClientClosed ==
    log.last.result # "none" => ~log.last.open

\* C15 (as claimed): an addTargetServer call that was rejected has installed
\* no handler and has not added its key to the registry.
C15_FailedPassLeavesNothing ==
    log.last.result = "rejected" =>
        /\ log.last.installed = {}
        /\ log.last.has => log.last.had

\* C16 (as claimed): the registration of the upstream that advertises a tool
\* name another upstream has registered ends without an error, and the name
\* then belongs to it, the last registrant.
C16_LastRegistrantWins ==
    (log.last.url = Twin /\ ~log.last.skip /\ log.last.result # "none") =>
        /\ log.last.result = "resolved"
        /\ \A c \in ListTools(Twin) :
              c \in DOMAIN handlers /\ handlers[c] = UrlToString(Twin)

\* The capabilities of a kind an upstream advertises.
Advertises(u, kind) ==
    {c \in ListTools(u) \cup ListResources(u) \cup ListPrompts(u) : c[1] = kind}

\* C17: once loadTargets has resolved, the tools, the resources and the
\* prompts the exposed server lists are those advertised by the configured
\* upstreams, all of which are registered; and at any time a listed
\* capability is one a registered upstream advertises.
C17_ListsTheUnion ==
    /\ mainPc = "serving" =>
          /\ \A j \in DOMAIN config : UrlToString(config[j]) \in DOMAIN targetClients
          /\ \A kind \in Kinds :
                ServerLists(kind)
                   = UNION {Advertises(config[j], kind) : j \in DOMAIN config}
    /\ \A kind \in Kinds : \A c \in ServerLists(kind) :
          \E n \in DOMAIN targetClients : c \in Advertises(targetClients[n].url, kind)

C17_Witness ==
    /\ mainPc = "serving"
    /\ \A kind \in Kinds : ServerLists(kind) # {}
    /\ Cardinality(ServerLists("tool")) = 2


\* C20 (as claimed): a send() on a transport that has no response stream
\* yet, or on which close() was called, fails with NotConnected and writes
\* nothing.
C20_SendNotOpenFails ==
    (lastSend.outcome # "none" /\ (lastSend.streams = 0 \/ lastSend.closeCalls >= 1))
        => (lastSend.outcome = "NotConnected" /\ ~lastSend.wrote)


\* C18: a POST whose sessionId is missing or is not a key of the sessions
\* map is answered 400 "Invalid session ID", hands no message to any
\* transport, and changes neither the sessions map nor any transport nor the
\* requests in progress.
C18_InvalidSession ==
    /\ [][(lastPost' # lastPost /\ ~lastPost'.live) =>
              /\ lastPost'.status = 400
              /\ lastPost'.text = "Invalid session ID"
              /\ lastPost'.fired = {}
              /\ UNCHANGED <<sessions, transports, calls>>]_vars
    /\ []((lastPost # NoPost /\ ~lastPost.live) =>
              (lastPost.status = 400 /\ lastPost.text = "Invalid session ID"))

C18_Witness ==
    /\ lastPost.status = 400
    /\ ~lastPost.live
    /\ lastPost.x \in DOMAIN transports
    /\ lastPost.wellFormed
    /\ DOMAIN sessions # {}

\* C19: a POST to a live session with another content type than JSON, or
\* with a body that does not parse, is answered 400, invokes onerror once
\* and onmessage not at all, and changes nothing else: the sessions map, the
\* requests in progress and every other field of every transport stay as
\* they are; and a well-formed POST to a session that has reported such an
\* error is answered 202 and handed to that session's onmessage.
C19_MalformedKeepsSession ==
    /\ [][(/\ lastPost' # lastPost
           /\ lastPost'.live
           /\ ~lastPost'.wellFormed
           /\ ValidJsonRpc(lastPost'.body)) =>
              /\ lastPost'.status = 400
              /\ lastPost'.fired = {}
              /\ UNCHANGED <<sessions, calls>>
              /\ transports' = [transports EXCEPT
                                   ![sessions[lastPost'.x]].errors = @ + 1]]_vars
    /\ [][(/\ lastPost' # lastPost
           /\ lastPost'.live
           /\ lastPost'.wellFormed
           /\ transports[sessions[lastPost'.x]].errors >= 1) =>
              /\ lastPost'.status = 202
              /\ lastPost'.fired = {<<sessions[lastPost'.x], <<lastPost'.body>>>>}]_vars

C19_Witness ==
    /\ lastPost.status = 202
    /\ lastPost.x \in DOMAIN sessions
    /\ transports[sessions[lastPost.x]].errors = 1
    /\ transports[sessions[lastPost.x]].writer

\* C21 (as claimed): on a transport on which close() has been called, no
\* later step writes a message event to its stream, hands a message to
\* onmessage or answers a POST with 202.
C21_ClosedRejects ==
    [][\A s \in DOMAIN transports :
          (transports[s].closeCalls >= 1 /\ s \in DOMAIN transports') =>
             /\ Messages(s)' = Messages(s)
             /\ transports'[s].received = transports[s].received
             /\ (lastPost' # lastPost /\ lastPost'.x = transports[s].sessionId)
                   => lastPost'.status # 202]_vars

\* C22 (as claimed): a send() whose write fails on the stream leaves the
\* transport closed (no writer, no response, onclose invoked) and has
\* invoked onerror.
C22_WriteFailureCloses ==
    [][(lastSend' # lastSend /\ lastSend'.outcome = "WriteFailed") =>
          /\ ~transports'[TheSid].writer
          /\ ~transports'[TheSid].sseResponse
          /\ transports'[TheSid].closed > transports[TheSid].closed
          /\ transports'[TheSid].errors > transports[TheSid].errors]_vars

\* C23 (as claimed): a session whose peer has gone away from its open
\* stream is eventually closed, if the process lives on: its transport has
\* no writer and no response, onclose has been invoked, and its id is no key
\* of the sessions map.
C23_PeerGoneCloses ==
    \A s \in SIDs :
        (s \in DOMAIN transports /\ transports[s].broken)
            ~> \/ mainPc = "killed"
               \/ /\ s \in DOMAIN transports
                  /\ ~transports[s].writer
                  /\ ~transports[s].sseResponse
                  /\ transports[s].closed >= 1
                  /\ transports[s].sessionId \notin DOMAIN sessions

\* C25 (as claimed): once a signal has ended the process, every transport
\* has been closed and has invoked onclose, the sessions map is empty, and
\* no step opens a session, fires a retry or changes the registry.
C25_ShutdownClosesSessions ==
    /\ [](mainPc = "killed" =>
            /\ sessions = EmptyMap
            /\ \A s \in DOMAIN transports :
                  transports[s].closed >= 1 /\ ~transports[s].writer)
    /\ [][mainPc = "killed" =>
            UNCHANGED <<transports, sessions, passes, targetClients>>]_vars

\* C24 (as claimed): the step that ends a call whose session was closed
\* while the call was in flight writes no message event to any stream and
\* leaves the sessions map, the other transports and the registry as they
\* are.
C24_ResultDropped ==
    [][\A k \in DOMAIN calls :
          (/\ calls[k].pc # "done"
           /\ calls'[k].pc = "done"
           /\ transports[calls[k].sid].closeCalls >= 1) =>
              /\ calls'[k].to = NoSid
              /\ \A s \in DOMAIN transports : transports'[s].stream = transports[s].stream
              /\ UNCHANGED <<sessions, targetClients>>]_vars

\* C26 (as claimed): a GET of '/' and a GET of '/sse' are both answered 200
\* with an SSE response of a new session that is entered in the sessions
\* map.
C26_BothPathsOpen ==
    lastGet.path \in {"/", "/sse"} =>
        /\ lastGet.status = 200
        /\ lastGet.contentType = "text/event-stream"
        /\ lastGet.sid \in DOMAIN transports

Selected == mainPc \in {"init", "loading", "serving"}

\* C28 (as claimed): when the config file exists the upstream list is the
\* config's servers, otherwise it is the positional URLs.
C28_ConfigFirst ==
    Selected =>
        config = IF cli.file = "valid" THEN cli.servers ELSE cli.positionals

\* C28 (amended): when positional URLs are given and --help is not, the
\* upstream list is exactly the positional URLs, whether or not a config
\* file exists; when none is given (or --help is) and a valid config file
\* exists, it is exactly the config's servers; when there is no config file
\* either, help is shown and the process exits without an upstream list.
\* Only upstreams of the list are connected and registered.
C28_PositionalsFirst ==
    /\ Selected =>
          IF cli.help \/ Len(cli.positionals) = 0
          THEN cli.file = "valid" /\ config = cli.servers
          ELSE config = cli.positionals
    /\ cli.helpShown =>
          /\ cli.file = "missing"
          /\ cli.help \/ Len(cli.positionals) = 0
          /\ mainPc = "exited"
          /\ cli.exitCode = IF cli.help THEN 0 ELSE 1
          /\ config = <<>>
    /\ \A i \in DOMAIN passes : \E j \in DOMAIN config : passes[i].url = config[j]
    /\ \A k \in DOMAIN targetClients : \E j \in DOMAIN config : k = UrlToString(config[j])

C28_Witness ==
    /\ mainPc = "serving"
    /\ cli.file = "valid"
    /\ cli.servers = <<1, 2>>
    /\ cli.positionals = <<2>>
    /\ DOMAIN targetClients = {UrlToString(2)}

\* C29: with a config file that exists and is not valid YAML or does not
\* match the schema, main() gets no further than loadConfig: the process
\* exits with code 1, no addTargetServer call is made, no upstream client is
\* opened, nothing is registered and the listener is never bound.
C29_BadConfigFatal ==
    cli.file \in {"badYaml", "schemaMismatch"} =>
        /\ mainPc \in {"start", "parsed", "exited"}
        /\ mainPc = "exited" => cli.exitCode = 1
        /\ ~cli.helpShown
        /\ config = <<>>
        /\ passes = <<>>
        /\ log.last = NoneEnded
        /\ clients = {}
        /\ targetClients = EmptyMap
        /\ handlers = EmptyMap
        /\ transports = EmptyMap
        /\ Health.status = 0

C29_Witness ==
    /\ cli.file = "schemaMismatch"
    /\ cli.positionals = <<2>>
    /\ reachable[2]
    /\ mainPc = "exited"
    /\ cli.exitCode = 1

\* The validator the claim names for a value under `properties`.
RECURSIVE ClaimedValidator(_)
ClaimedValidator(value) ==
    CASE value.object /\ value.type = "string" -> ZString
      [] value.object /\ value.type \in {"number", "integer"} -> ZNumber
      [] value.object /\ value.type = "boolean" -> ZBoolean
      [] value.object /\ value.type = "array" ->
            CASE value.items = "string" -> ZArray("string")
              [] value.items \in {"number", "integer"} -> ZArray("number")
              [] value.items = "boolean" -> ZArray("boolean")
              [] OTHER -> ZArray("any")
      [] value.object /\ value.type = "object" /\ value.has ->
            ZObject([k \in DOMAIN value.props |-> ClaimedValidator(value.props[k])])
      [] value.object /\ value.type = "object" /\ ~value.has -> ZRecord
      [] OTHER -> ZAny

\* C30: the result of jsonSchemaToZod has exactly the keys of the schema's
\* `properties` (none for a schema without), and under each key the
\* validator the claim names for the value's type: string, number (also for
\* integer), boolean, array of the item's scalar type or of any, object
\* converted in the same way or map of string to any, and any for an
\* unknown or missing type.
C30_TypeMapping ==
    zodOut.done =>
        LET properties == IF schemaIn.has THEN schemaIn.props ELSE EmptyMap
        IN  /\ DOMAIN zodOut.shape = DOMAIN properties
            /\ \A k \in DOMAIN properties :
                  zodOut.shape[k] = ClaimedValidator(properties[k])

C30_Witness ==
    /\ zodOut.done
    /\ DOMAIN zodOut.shape = Keys
    /\ zodOut.shape["k1"].zod = "object"
    /\ DOMAIN zodOut.shape["k1"].shape = NestedKeys
    /\ zodOut.shape["k1"].shape["k1"] = ZArray("number")
    /\ zodOut.shape["k2"] = ZAny

\* The step is one of call i of addTargetServer: the call goes on, or it
\* ends.
PassMoves(i) == Len(passes') = Len(passes) /\ passes'[i] # passes[i]
PassEnds(i) == passes' = RemoveAt(passes, i)

(***************************************************************************)
(* C31. With skipRegister set, a successful addTargetServer inserts the    *)
(* descriptor into targetClients and resolves there: the call never        *)
(* reaches a listing, no step of it changes the installed handlers, and    *)
(* the retry after a failed connect is a call with the same skipRegister.  *)
(***************************************************************************)
C31_SkipRegisterStops ==
    [][\A i \in DOMAIN passes :
          passes[i].skip =>
             /\ passes[i].pc \in {"connect", "timer"}
             /\ PassEnds(i) \/ PassMoves(i) => handlers' = handlers
             /\ PassMoves(i)
                  => /\ passes'[i].skip
                     /\ passes'[i].url = passes[i].url
                     /\ passes'[i].pc \in {"connect", "timer"}
             /\ PassEnds(i)
                  => /\ passes[i].pc = "connect"
                     /\ targetClients' = MapSet(targetClients,
                                                UrlToString(passes[i].url),
                                                Descriptor(passes[i].url))
                     /\ log'.last.skip
                     /\ log'.last.result = "resolved"
                     /\ log'.last.at = "connect"
                     /\ log'.last.has
                     /\ log'.last.installed = {}]_vars

\* A call with skipRegister resolved for a key that was not in the registry,
\* while handlers of an earlier registration were installed.
C31_Witness ==
    /\ passes = <<>>
    /\ log.last.skip
    /\ log.last.result = "resolved"
    /\ ~log.last.had
    /\ log.last.has
    /\ handlers # EmptyMap

(***************************************************************************)
(* C32. targetClients is keyed by the string form of the upstream's URL,   *)
(* each value being the descriptor {clientInfo, url} of that URL and       *)
(* nothing more; a connect that succeeds sets the entry under the URL's    *)
(* string, leaves the other entries as they are and, when the key was      *)
(* there already, does not change the number of entries.                   *)
(***************************************************************************)
C32_KeyedByUrlString ==
    /\ [](\A k \in DOMAIN targetClients :
             /\ DOMAIN targetClients[k] = {"clientInfo", "url"}
             /\ targetClients[k].url \in AllURLs
             /\ k = UrlToString(targetClients[k].url))
    /\ [][\A i \in DOMAIN passes :
             (/\ passes[i].pc = "connect"
              /\ \/ PassEnds(i)
                 \/ PassMoves(i) /\ passes'[i].pc = "listTools")
             => LET u == passes[i].url
                    k == UrlToString(u)
                IN  /\ DOMAIN targetClients' = DOMAIN targetClients \cup {k}
                    /\ targetClients'[k] = [clientInfo |-> ClientInfoOf(u), url |-> u]
                    /\ \A j \in DOMAIN targetClients \ {k} :
                          targetClients'[j] = targetClients[j]
                    /\ k \in DOMAIN targetClients
                          => Cardinality(DOMAIN targetClients')
                               = Cardinality(DOMAIN targetClients)]_vars

\* An upstream was added again under the key it already had, next to an
\* upstream of the same host that has a key of its own.
C32_Witness ==
    /\ passes = <<>>
    /\ log.last.result = "resolved"
    /\ log.last.had
    /\ log.last.has
    /\ DOMAIN targetClients = {UrlToString(1), UrlToString(Twin)}
    /\ Hostname(1) = Hostname(Twin)

(***************************************************************************)
(* C33. A tool call whose arguments the upstream would accept, and which   *)
(* leaves out a property of the input schema that `required` does not      *)
(* list, is handed to the handler and forwarded, not failed by the         *)
(* validation of the exposed server.                                       *)
(***************************************************************************)
C33_OptionalMayBeOmitted ==
    (/\ invocation.op = "callTool"
     /\ UpstreamAccepts(schemaIn, invocation.args)
     /\ \E k \in DOMAIN schemaIn.props :
           k \notin schemaIn.required /\ k \notin DOMAIN invocation.args)
    => invocation.outcome = "forwarded"

(***************************************************************************)
(* C38. jsonSchemaToZod of a value without top-level `properties`          *)
(* (undefined, or the list of a prompt's arguments) is the empty map of    *)
(* validators: the shape a prompt is registered with names none of the     *)
(* arguments the upstream declares for it, and a prompts/get that carries  *)
(* arguments reaches the handler with none of them.                        *)
(***************************************************************************)
C38_PromptShapeEmpty ==
    /\ (zodOut.done /\ ~schemaIn.has) => zodOut.shape = EmptyMap
    /\ (zodOut.done /\ schemaIn.of = "prompt")
          => /\ schemaIn.js \in {"array", "undefined"}
             /\ DOMAIN zodOut.shape \cap {a.name : a \in schemaIn.arguments} = {}
    /\ invocation.op = "getPrompt"
          => /\ invocation.forwarded = EmptyMap
             /\ invocation.args # Undefined => invocation.outcome = "forwarded"

\* A prompt with a required argument was registered and then requested
\* with every argument given.
C38_Witness ==
    /\ zodOut.done
    /\ schemaIn.of = "prompt"
    /\ schemaIn.js = "array"
    /\ \E a \in schemaIn.arguments : a.required
    /\ invocation.op = "getPrompt"
    /\ invocation.args # Undefined
    /\ DOMAIN invocation.args = Keys
    /\ invocation.forwarded = EmptyMap

(***************************************************************************)
(* C34. this.transports at every moment: the transport under key k has     *)
(* session id k, two keys never name one transport, and a transport on     *)
(* which close() has completed is not in the map (a close() still in the   *)
(* map is one that threw at writer.close()).                               *)
(***************************************************************************)
C34_SessionsMap ==
    \A k \in DOMAIN sessions :
        /\ sessions[k] \in DOMAIN transports
        /\ transports[sessions[k]].sessionId = k
        /\ \A j \in DOMAIN sessions : j # k => sessions[j] # sessions[k]
        /\ transports[sessions[k]].closed = 0
        /\ transports[sessions[k]].closeCalls > 0
              => transports[sessions[k]].writer /\ transports[sessions[k]].broken

\* Of two sessions one was closed and is gone from the map, the other is
\* still there.
C34_Witness ==
    /\ \E s \in DOMAIN transports :
          /\ transports[s].closeCalls = 1
          /\ transports[s].closed = 1
          /\ transports[s].sessionId \notin DOMAIN sessions
    /\ \E k \in DOMAIN sessions : transports[sessions[k]].sessionId = k

(***************************************************************************)
(* C35. A POST that a session's transport rejects is answered 400 and      *)
(* reaches onmessage not at all; onerror is called once for it when the    *)
(* content type is not JSON or the body does not parse, and twice when the *)
(* body parses and is not a JSON-RPC message (by handleMessage, and again   *)
(* by the catch of handlePostMessage).                                     *)
(***************************************************************************)
C35_OnErrorCount ==
    /\ []((lastPost.live /\ ~lastPost.wellFormed)
            => lastPost.status = 400 /\ lastPost.fired = {})
    /\ [][\A s \in DOMAIN transports :
             transports'[s].errors # transports[s].errors
             => /\ lastPost'.live
                /\ lastPost'.x = transports[s].sessionId
                /\ ~lastPost'.wellFormed
                /\ lastPost'.status = 400
                /\ transports'[s].received = transports[s].received
                /\ transports'[s].errors - transports[s].errors
                      = IF /\ lastPost'.contentType = "application/json"
                           /\ lastPost'.parses
                        THEN 2 ELSE 1]_vars

\* A body that parses and is not JSON-RPC was rejected: two onerror calls.
C35_Witness ==
    /\ lastPost.live
    /\ lastPost.status = 400
    /\ lastPost.contentType = "application/json"
    /\ lastPost.parses
    /\ ~ValidJsonRpc(lastPost.body)
    /\ lastPost.x \in DOMAIN sessions
    /\ transports[sessions[lastPost.x]].errors = 2
    /\ transports[sessions[lastPost.x]].received = <<>>

(***************************************************************************)
(* C36. Of one upstream at most one connection attempt or retry timer is   *)
(* under way at any time, also after both callbacks of its client have     *)
(* run.                                                                    *)
(***************************************************************************)
C36_OneReconnectChain ==
    \A u \in AllURLs :
        Cardinality({i \in DOMAIN passes : /\ passes[i].url = u
                                           /\ passes[i].pc \in {"connect", "timer"}})
            <= 1

(***************************************************************************)
(* C37. disconnectAll() empties targetClients (listTargetClients() is      *)
(* empty when it returns) and leaves the installed handlers as they are;   *)
(* a capability invoked while the registry is empty fails with             *)
(* "Client for ... not found".                                             *)
(***************************************************************************)
C37_DisconnectAllKeepsHandlers ==
    /\ [][log'.cleared # log.cleared
             => /\ targetClients' = EmptyMap
                /\ listTargetClients' = {}
                /\ handlers' = handlers]_vars
    /\ [][(Len(calls') > Len(calls) /\ targetClients = EmptyMap)
             => /\ calls'[Len(calls')].outcome = "ClientNotFound"
                /\ calls'[Len(calls')].pc = "done"]_vars

\* Two upstreams were added, the later call ending with its key in the
\* registry; disconnectAll() removed both keys, and a capability invoked
\* afterwards found no client.
C37_Witness ==
    /\ passes = <<>>
    /\ log.last.result = "resolved"
    /\ log.last.has
    /\ log.cleared = 1
    /\ Cardinality(log.removed) = 2
    /\ targetClients = EmptyMap
    /\ handlers # EmptyMap
    /\ \E k \in DOMAIN calls : calls[k].outcome = "ClientNotFound"

=============================================================================
